---- MODULE Spec2Model ----
(***************************************************************************)
(* Model of docusaurus-plugin-mdc-rules: the cross-reference resolver       *)
(* (link-resolver.ts) and the content-loading pipeline (content-loader.ts). *)
(*                                                                         *)
(* Text is modelled at character level: a string is a sequence of          *)
(* one-character strings, so that pattern matching, substring search and    *)
(* String.prototype.replace behave as they do in the program.  The         *)
(* alphabet of the inputs does not contain '$', which has a special         *)
(* meaning in the replacement argument of String.prototype.replace.         *)
(***************************************************************************)
EXTENDS Integers, Sequences, FiniteSets, TLC

(***************************************************************************)
(* Character strings                                                       *)
(***************************************************************************)
SetMin(S) == CHOOSE x \in S : \A y \in S : x <= y
SetMax(S) == CHOOSE x \in S : \A y \in S : x >= y

DotSlash == <<".", "/">>
MdcExt == <<".", "m", "d", "c">>
MdcScheme == <<"m", "d", "c", ":">>
LegacyRules == <<".", "c", "u", "r", "s", "o", "r", "/", "r", "u", "l", "e", "s", "/">>
DefaultSourceDir == <<".", "c", "u", "r", "s", "o", "r", "/", "r", "u", "l", "e", "s">>
CustomSourceDir == <<"c", "u", "s", "t", "o", "m", "/", "r", "u", "l", "e", "s">>
RulesBase == <<"/", "r", "u", "l", "e", "s">>

Whitespace == {" ", "\n", "\t", "\r"}
LineTerminators == {"\n", "\r"}
Quotes == {"\"", "'"}

\* String.prototype.startsWith(t, i-1), 1-based position i
StartsAt(s, i, t) ==
  /\ i >= 1
  /\ i + Len(t) - 1 <= Len(s)
  /\ SubSeq(s, i, i + Len(t) - 1) = t

StartsWith(s, t) == StartsAt(s, 1, t)
EndsWith(s, t) == Len(t) <= Len(s) /\ SubSeq(s, Len(s) - Len(t) + 1, Len(s)) = t

\* String.prototype.indexOf, 1-based; 0 when t does not occur in s
IndexOf(s, t) ==
  LET hits == {k \in 1..(Len(s) - Len(t) + 1) : StartsAt(s, k, t)}
  IN IF hits = {} THEN 0 ELSE SetMin(hits)

Includes(s, t) == IndexOf(s, t) # 0

\* s.substring(n): drop the first n characters
Substring(s, n) == SubSeq(s, n + 1, Len(s))

\* String.prototype.replace with a string pattern: only the first occurrence
ReplaceFirst(s, pat, rep) ==
  LET k == IndexOf(s, pat)
  IN IF k = 0 THEN s
     ELSE SubSeq(s, 1, k - 1) \o rep \o SubSeq(s, k + Len(pat), Len(s))

\* s.replace(/\\/g, '/')
NormalizeSeparators(s) == [k \in 1..Len(s) |-> IF s[k] = "\\" THEN "/" ELSE s[k]]

\* s.replace(/\.mdc$/, '')
StripMdcExt(s) == IF EndsWith(s, MdcExt) THEN SubSeq(s, 1, Len(s) - 4) ELSE s

\* s.replace(/^\.\//, '')
StripDotSlash(s) == IF StartsWith(s, DotSlash) THEN Substring(s, 2) ELSE s

\* last position of the maximal run, starting at i, of characters outside stop
\* (i - 1 when the run is empty)
RunEnd(s, i, stop) ==
  LET bad == {k \in i..Len(s) : s[k] \in stop}
  IN IF bad = {} THEN Len(s) ELSE SetMin(bad) - 1

(***************************************************************************)
(* path.join (POSIX) of two arguments                                      *)
(***************************************************************************)
RECURSIVE SplitSlash(_)
SplitSlash(s) ==
  LET k == IndexOf(s, <<"/">>)
  IN IF k = 0 THEN <<s>>
     ELSE <<SubSeq(s, 1, k - 1)>> \o SplitSlash(Substring(s, k))

RECURSIVE NormalizeSegments(_, _, _)
NormalizeSegments(segs, acc, absolute) ==
  IF segs = <<>> THEN acc
  ELSE LET h == Head(segs)
           t == Tail(segs)
       IN IF h = <<>> \/ h = <<".">> THEN NormalizeSegments(t, acc, absolute)
          ELSE IF h = <<".", ".">>
          THEN IF acc # <<>> /\ acc[Len(acc)] # <<".", ".">>
               THEN NormalizeSegments(t, SubSeq(acc, 1, Len(acc) - 1), absolute)
               ELSE IF absolute THEN NormalizeSegments(t, acc, absolute)
               ELSE NormalizeSegments(t, Append(acc, h), absolute)
          ELSE NormalizeSegments(t, Append(acc, h), absolute)

RECURSIVE JoinSlash(_)
JoinSlash(segs) ==
  IF segs = <<>> THEN <<>>
  ELSE IF Len(segs) = 1 THEN segs[1]
  ELSE segs[1] \o <<"/">> \o JoinSlash(Tail(segs))

PathNormalize(p) ==
  IF p = <<>> THEN <<".">>
  ELSE LET absolute == p[1] = "/"
           trailing == p[Len(p)] = "/"
           body == JoinSlash(NormalizeSegments(SplitSlash(p), <<>>, absolute))
           body2 == IF body = <<>> /\ ~absolute THEN <<".">> ELSE body
           body3 == IF body2 # <<>> /\ trailing THEN body2 \o <<"/">> ELSE body2
       IN IF absolute THEN <<"/">> \o body3 ELSE body3

PathJoin(a, b) ==
  IF a = <<>> /\ b = <<>> THEN <<".">>
  ELSE IF a = <<>> THEN PathNormalize(b)
  ELSE IF b = <<>> THEN PathNormalize(a)
  ELSE PathNormalize(a \o <<"/">> \o b)

(***************************************************************************)
(* LinkResolver.MDC_LINK_PATTERN                                           *)
(*   (<a\s+[^>]*href\s*=\s*["'](H)["'][^>]*>.*?<\/a>)|(B)                  *)
(*   H = \.\/[^\s"']+\.mdc | \.cursor\/rules\/[^\s"']+\.mdc                *)
(*       | mdc:[^\s"']+\.mdc                                               *)
(*   B = the same three alternatives with the class [^\s\)\]]              *)
(***************************************************************************)
HrefStop == Whitespace \cup Quotes
BareStop == Whitespace \cup {")", "]"}

\* length of the literal prefix of the alternative that can start at i, or 0
PrefixLenAt(s, i) ==
  IF StartsAt(s, i, DotSlash) THEN Len(DotSlash)
  ELSE IF StartsAt(s, i, LegacyRules) THEN Len(LegacyRules)
  ELSE IF StartsAt(s, i, MdcScheme) THEN Len(MdcScheme)
  ELSE 0

\* a variant of BareMatchEnd whose class may match no character at all
BareMatchEndEmptyName(s, i) ==
  LET pl == PrefixLenAt(s, i)
      e == RunEnd(s, i + pl, BareStop)
      ends == {j \in (i + pl)..(e - 3) : StartsAt(s, j, MdcExt)}
  IN IF pl = 0 \/ ends = {} THEN 0 ELSE SetMax(ends) + 3

\* Bare alternative at position i: last position of the match, or 0.  The
\* class is greedy and '.mdc' lies inside the class, so the match ends at the
\* last '.mdc' of the maximal run that leaves the class at least one character.
BareMatchEnd(s, i) ==
  LET pl == PrefixLenAt(s, i)
      e == RunEnd(s, i + pl, BareStop)
      ends == {j \in (i + pl + 1)..(e - 3) : StartsAt(s, j, MdcExt)}
  IN IF pl = 0 \/ ends = {} THEN 0 ELSE SetMax(ends) + 3

\* Destination alternative starting at q, which must be followed by a quote:
\* the match is the whole maximal run of non-quote, non-space characters.
HrefMatchEnd(s, q) ==
  LET pl == PrefixLenAt(s, q)
      e == RunEnd(s, q + pl, HrefStop)
  IN IF /\ pl # 0
        /\ e - 3 >= q + pl + 1
        /\ StartsAt(s, e - 3, MdcExt)
        /\ e + 1 <= Len(s)
        /\ s[e + 1] \in Quotes
     THEN e ELSE 0

NoMatch == [end |-> 0, hrefStart |-> 0, hrefEnd |-> 0]

\* \s* from position i: the position after the run of whitespace
SkipSpaces(s, i) ==
  RunEnd(s, i, {c \in {s[k] : k \in 1..Len(s)} : c \notin Whitespace}) + 1

\* .*?<\/a> after the '>' at gt: the nearest '</a>' on the same line
AnchorCloseAt(s, q, he, gt) ==
  IF gt > Len(s) \/ \A k \in (gt + 1)..(RunEnd(s, gt + 1, LineTerminators) - 3) :
                      ~StartsAt(s, k, <<"<", "/", "a", ">">>)
  THEN NoMatch
  ELSE [end |-> SetMin({k \in (gt + 1)..(RunEnd(s, gt + 1, LineTerminators) - 3) :
                          StartsAt(s, k, <<"<", "/", "a", ">">>)}) + 3,
        hrefStart |-> q, hrefEnd |-> he]

\* (H)["'][^>]*> with the destination at q..he (he = 0: H does not match)
AnchorHrefAt(s, q, he) ==
  IF he = 0 THEN NoMatch ELSE AnchorCloseAt(s, q, he, RunEnd(s, he + 2, {">"}) + 1)

\* ["'](H) with the quote expected at q0
AnchorQuoteAt(s, q0) ==
  IF q0 <= Len(s) /\ s[q0] \in Quotes
  THEN AnchorHrefAt(s, q0 + 1, HrefMatchEnd(s, q0 + 1))
  ELSE NoMatch

\* =\s* with the equals sign expected at eq
AnchorEqualsAt(s, eq) ==
  IF eq <= Len(s) /\ s[eq] = "=" THEN AnchorQuoteAt(s, SkipSpaces(s, eq + 1)) ELSE NoMatch

\* href\s*=\s*["'](H)["'][^>]*>.*?<\/a> with 'href' at h
AnchorTailAt(s, h) ==
  IF ~StartsAt(s, h, <<"h", "r", "e", "f">>) THEN NoMatch
  ELSE AnchorEqualsAt(s, SkipSpaces(s, h + 4))

\* Anchor alternative at position i.  '<a', one whitespace at least, then the
\* greedy [^>]* : the 'href' furthest to the right for which the rest matches.
AnchorMatchAt(s, i) ==
  IF ~(StartsAt(s, i, <<"<", "a">>) /\ i + 2 <= Len(s) /\ s[i + 2] \in Whitespace)
  THEN NoMatch
  ELSE LET last == RunEnd(s, i + 3, {">"}) + 1
           hs == {h \in (i + 3)..last : h <= Len(s) /\ AnchorTailAt(s, h).end # 0}
       IN IF hs = {} THEN NoMatch ELSE AnchorTailAt(s, SetMax(hs))

\* a variant of MatchAllFrom that resumes the scan one character after the
\* start of a hyperlink match instead of after its end
RECURSIVE MatchAllOverlapping(_, _)
MatchAllOverlapping(s, i) ==
  IF i > Len(s) THEN <<>>
  ELSE LET a == AnchorMatchAt(s, i)
           b == BareMatchEnd(s, i)
       IN IF a.end # 0
          THEN <<[start |-> i, end |-> a.end, anchor |-> TRUE,
                  hrefStart |-> a.hrefStart, hrefEnd |-> a.hrefEnd]>>
               \o MatchAllOverlapping(s, i + 1)
          ELSE IF b # 0
          THEN <<[start |-> i, end |-> b, anchor |-> FALSE,
                  hrefStart |-> i, hrefEnd |-> b]>>
               \o MatchAllOverlapping(s, b + 1)
          ELSE MatchAllOverlapping(s, i + 1)

\* content.matchAll(MDC_LINK_PATTERN): leftmost, non-overlapping matches, the
\* anchor alternative tried before the bare one at every position.
\* A match is [start, end, anchor, hrefStart, hrefEnd].
RECURSIVE MatchAllFrom(_, _)
MatchAllFrom(s, i) ==
  IF i > Len(s) THEN <<>>
  ELSE LET a == AnchorMatchAt(s, i)
           b == BareMatchEnd(s, i)
       IN IF a.end # 0
          THEN <<[start |-> i, end |-> a.end, anchor |-> TRUE,
                  hrefStart |-> a.hrefStart, hrefEnd |-> a.hrefEnd]>>
               \o MatchAllFrom(s, a.end + 1)
          ELSE IF b # 0
          THEN <<[start |-> i, end |-> b, anchor |-> FALSE,
                  hrefStart |-> i, hrefEnd |-> b]>>
               \o MatchAllFrom(s, b + 1)
          ELSE MatchAllFrom(s, i + 1)

MatchAll(s) == MatchAllFrom(s, 1)

\* anchorTag.match(/>([^<]*)</): the text between the first '>' that is
\* followed by a '<' and that '<'; 'link' when there is none
LinkText(anchorTag) ==
  LET gts == {k \in 1..Len(anchorTag) :
                /\ anchorTag[k] = ">"
                /\ RunEnd(anchorTag, k + 1, {"<"}) < Len(anchorTag)}
  IN IF gts = {} THEN <<"l", "i", "n", "k">>
     ELSE LET g == SetMin(gts)
          IN SubSeq(anchorTag, g + 1, RunEnd(anchorTag, g + 1, {"<"}))

(***************************************************************************)
(* Character codes, for Array.prototype.sort and String.toLowerCase        *)
(***************************************************************************)
AsciiTable ==
  <<" ", "!", "\"", "#", "$", "%", "&", "'", "(", ")", "*", "+",
    ",", "-", ".", "/", "0", "1", "2", "3", "4", "5", "6", "7",
    "8", "9", ":", ";", "<", "=", ">", "?", "@", "A", "B", "C",
    "D", "E", "F", "G", "H", "I", "J", "K", "L", "M", "N", "O",
    "P", "Q", "R", "S", "T", "U", "V", "W", "X", "Y", "Z", "[",
    "\\", "]", "^", "_", "<backtick>", "a", "b", "c", "d", "e", "f", "g",
    "h", "i", "j", "k", "l", "m", "n", "o", "p", "q", "r", "s",
    "t", "u", "v", "w", "x", "y", "z", "{", "|", "}", "~">>

\* UTF-16 code unit of a printable character, offset by 31 (the entry of the
\* backtick, which no input uses, is a placeholder); control characters
\* (tab, newline, carriage return) sort before every printable one
CharCode(c) ==
  IF \E k \in 1..Len(AsciiTable) : AsciiTable[k] = c
  THEN CHOOSE k \in 1..Len(AsciiTable) : AsciiTable[k] = c
  ELSE 0

UpperA == CharCode("A")
UpperZ == CharCode("Z")
LowerOffset == CharCode("a") - CharCode("A")

ToLowerChar(c) ==
  IF CharCode(c) >= UpperA /\ CharCode(c) <= UpperZ
  THEN AsciiTable[CharCode(c) + LowerOffset] ELSE c

\* String.prototype.toLowerCase
ToLowerCase(s) == [k \in 1..Len(s) |-> ToLowerChar(s[k])]

\* the default comparison of Array.prototype.sort: code unit order
RECURSIVE StrLess(_, _)
StrLess(a, b) ==
  IF b = <<>> THEN FALSE
  ELSE IF a = <<>> THEN TRUE
  ELSE IF a[1] # b[1] THEN CharCode(a[1]) < CharCode(b[1])
  ELSE StrLess(Tail(a), Tail(b))

RECURSIVE Digits(_)
Digits(n) ==
  IF n < 10 THEN <<AsciiTable[CharCode("0") + n]>>
  ELSE Digits(n \div 10) \o <<AsciiTable[CharCode("0") + (n % 10)]>>

\* Array.prototype.join
RECURSIVE JoinWith(_, _)
JoinWith(strs, sep) ==
  IF strs = <<>> THEN <<>>
  ELSE IF Len(strs) = 1 THEN strs[1]
  ELSE strs[1] \o sep \o JoinWith(Tail(strs), sep)

Range(seq) == {seq[k] : k \in 1..Len(seq)}

\* path.basename(p, '.mdc') (POSIX)
Basename(p) ==
  IF p = MdcExt THEN <<>>
  ELSE LET nonSlash == {k \in 1..Len(p) : p[k] # "/"}
       IN IF nonSlash = {} THEN <<>>
          ELSE LET e == SetMax(nonSlash)
                   slashes == {k \in 1..e : p[k] = "/"}
                   b == IF slashes = {} THEN 1 ELSE SetMax(slashes) + 1
                   base == SubSeq(p, b, e)
               IN IF EndsWith(base, MdcExt) /\ base # MdcExt
                  THEN SubSeq(base, 1, Len(base) - 4) ELSE base

(***************************************************************************)
(* LinkResolver                                                            *)
(***************************************************************************)
\* Map.prototype.set on the key list of discoveredFiles (insertion order,
\* a key already present keeps its place).  The stored values are never read.
MapSet(keys, k) == IF k \in Range(keys) THEN keys ELSE Append(keys, k)

\* setDiscoveredFiles: the keys of the rebuilt map, from the file paths of
\* ruleContents
RECURSIVE SetDiscoveredFilesFrom(_, _)
SetDiscoveredFilesFrom(ruleContents, keys) ==
  IF ruleContents = <<>> THEN keys
  ELSE LET fp == Head(ruleContents).filePath
       IN SetDiscoveredFilesFrom(Tail(ruleContents),
                                 MapSet(MapSet(keys, fp), NormalizeSeparators(fp)))

\* a variant of SetDiscoveredFiles that misses the last document
SetDiscoveredFilesSkipLast(ruleContents) ==
  SetDiscoveredFilesFrom(SubSeq(ruleContents, 1, Len(ruleContents) - 1), <<>>)

SetDiscoveredFiles(ruleContents) == SetDiscoveredFilesFrom(ruleContents, <<>>)

ValidateTargetExists(files, relativePath) ==
  LET cleanPath == StripDotSlash(relativePath)
      normalizedPath == NormalizeSeparators(cleanPath)
  IN \/ relativePath \in Range(files)
     \/ cleanPath \in Range(files)
     \/ normalizedPath \in Range(files)

\* a variant of TargetFilePath without the branch of the legacy
\* .cursor/rules references
TargetFilePathNoLegacy(srcDir, originalLink) ==
  IF StartsWith(originalLink, MdcScheme)
  THEN LET mdcPath == Substring(originalLink, 4)
       IN IF StartsWith(mdcPath, srcDir \o <<"/">>)
          THEN Substring(mdcPath, Len(srcDir) + 1)
          ELSE IF StartsWith(mdcPath, DotSlash \o srcDir \o <<"/">>)
          THEN Substring(mdcPath, Len(DotSlash \o srcDir \o <<"/">>))
          ELSE mdcPath
  ELSE IF StartsWith(originalLink, DotSlash)
  THEN Substring(originalLink, 2)
  ELSE originalLink

\* the path relative to the source directory that resolveSingleLink derives
TargetFilePath(srcDir, originalLink) ==
  IF StartsWith(originalLink, MdcScheme)
  THEN LET mdcPath == Substring(originalLink, 4)
       IN IF StartsWith(mdcPath, srcDir \o <<"/">>)
          THEN Substring(mdcPath, Len(srcDir) + 1)
          ELSE IF StartsWith(mdcPath, DotSlash \o srcDir \o <<"/">>)
          THEN Substring(mdcPath, Len(DotSlash \o srcDir \o <<"/">>))
          ELSE mdcPath
  ELSE IF Includes(originalLink, LegacyRules)
  THEN Substring(originalLink, IndexOf(originalLink, LegacyRules) - 1 + Len(LegacyRules))
  ELSE IF StartsWith(originalLink, DotSlash)
  THEN Substring(originalLink, 2)
  ELSE originalLink

ResolveSingleLink(srcDir, base, files, originalLink) ==
  LET targetFilePath == TargetFilePath(srcDir, originalLink)
      pathWithoutExt == StripMdcExt(targetFilePath)
      normalizedPath == NormalizeSeparators(pathWithoutExt)
  IN [original |-> originalLink,
      resolved |-> PathJoin(base, normalizedPath),
      isValid |-> ValidateTargetExists(files, targetFilePath)]

AHrefOpen == <<"<", "a", " ", "h", "r", "e", "f", "=", "\"">>
TagClose == <<"\"", ">">>
AClose == <<"<", "/", "a", ">">>

\* one iteration of the loop of resolveLinks over the matches of the ORIGINAL
\* content: acc is [content, crossReferences]
ResolveMatch(srcDir, base, files, content, m, acc) ==
  LET originalLink == SubSeq(content, m.hrefStart, m.hrefEnd)
      resolvedInfo == ResolveSingleLink(srcDir, base, files, originalLink)
      anchorTag == SubSeq(content, m.start, m.end)
      newAnchorTag == AHrefOpen \o resolvedInfo.resolved \o TagClose
                        \o LinkText(anchorTag) \o AClose
  IN [content |-> IF m.anchor
                  THEN ReplaceFirst(acc.content, anchorTag, newAnchorTag)
                  ELSE ReplaceFirst(acc.content, originalLink, resolvedInfo.resolved),
      crossReferences |-> Append(acc.crossReferences, resolvedInfo)]

RECURSIVE ResolveMatches(_, _, _, _, _, _)
ResolveMatches(srcDir, base, files, content, ms, acc) ==
  IF ms = <<>> THEN acc
  ELSE ResolveMatches(srcDir, base, files, content, Tail(ms),
                      ResolveMatch(srcDir, base, files, content, Head(ms), acc))

ResolveLinks(srcDir, base, files, content) ==
  ResolveMatches(srcDir, base, files, content, MatchAll(content),
                 [content |-> content, crossReferences |-> <<>>])

\* literal text of the messages of generateWarnings
BrokenPrefix ==
  <<"B", "r", "o", "k", "e", "n", " ", "c", "r", "o", "s", "s", "-", "r",
    "e", "f", "e", "r", "e", "n", "c", "e", " ", "i", "n", " ">>
ColonSpace == <<":", " ">>
CommaSpace == <<",", " ">>
SuggestionsLabel ==
  <<"\n", " ", " ", "S", "u", "g", "g", "e", "s", "t", "i", "o", "n", "s",
    ":", " ">>
AvailableLabel ==
  <<"\n", " ", " ", "A", "v", "a", "i", "l", "a", "b", "l", "e", " ", "f",
    "i", "l", "e", "s", ":", " ">>
AndOpen == <<" ", "(", "a", "n", "d", " ">>
MoreClose == <<" ", "m", "o", "r", "e", ")">>

MaxListedFiles == 5
MaxSuggestions == 3

\* a variant of FindSimilarFiles that suggests only a file of the same basename
FindSimilarFilesExact(originalLink, availableFiles) ==
  LET linkBasename == ToLowerCase(Basename(originalLink))
      Same(file) == ToLowerCase(Basename(file)) = linkBasename
      suggestions == SelectSeq(availableFiles, Same)
  IN SubSeq(suggestions, 1, IF Len(suggestions) < MaxSuggestions
                            THEN Len(suggestions) ELSE MaxSuggestions)

\* findSimilarFiles: the first three available files whose basename equals,
\* contains or is contained in the basename of the broken link
FindSimilarFiles(originalLink, availableFiles) ==
  LET linkBasename == ToLowerCase(Basename(originalLink))
      Similar(file) ==
        LET fileBasename == ToLowerCase(Basename(file))
        IN \/ fileBasename = linkBasename
           \/ Includes(fileBasename, linkBasename)
           \/ Includes(linkBasename, fileBasename)
      suggestions == SelectSeq(availableFiles, Similar)
  IN SubSeq(suggestions, 1, IF Len(suggestions) < MaxSuggestions
                            THEN Len(suggestions) ELSE MaxSuggestions)

\* a variant of AvailableFiles that keeps the order of the index
AvailableFilesUnsorted(files) ==
  LET IsMdc(p) == EndsWith(p, MdcExt)
      kept == SelectSeq(files, IsMdc)
  IN [k \in 1..Len(kept) |-> DotSlash \o kept[k]]

\* Array.from(discoveredFiles.keys()).filter(endsWith '.mdc').map('./' + p).sort()
AvailableFiles(files) ==
  LET IsMdc(p) == EndsWith(p, MdcExt)
      kept == SelectSeq(files, IsMdc)
  IN SortSeq([k \in 1..Len(kept) |-> DotSlash \o kept[k]], StrLess)

WarningMessage(files, ref, sourceFilePath) ==
  LET availableFiles == AvailableFiles(files)
      suggestions == FindSimilarFiles(ref.original, availableFiles)
      listed == SubSeq(availableFiles, 1, IF Len(availableFiles) < MaxListedFiles
                                          THEN Len(availableFiles) ELSE MaxListedFiles)
  IN BrokenPrefix \o sourceFilePath \o ColonSpace \o ref.original
       \o (IF Len(suggestions) > 0
           THEN SuggestionsLabel \o JoinWith(suggestions, CommaSpace) ELSE <<>>)
       \o AvailableLabel \o JoinWith(listed, CommaSpace)
       \o (IF Len(availableFiles) > MaxListedFiles
           THEN AndOpen \o Digits(Len(availableFiles) - MaxListedFiles) \o MoreClose
           ELSE <<>>)

\* a variant of GenerateWarnings without the test of isValid
RECURSIVE GenerateWarningsAll(_, _, _)
GenerateWarningsAll(files, crossReferences, sourceFilePath) ==
  IF crossReferences = <<>> THEN <<>>
  ELSE <<WarningMessage(files, Head(crossReferences), sourceFilePath)>>
       \o GenerateWarningsAll(files, Tail(crossReferences), sourceFilePath)

RECURSIVE GenerateWarnings(_, _, _)
GenerateWarnings(files, crossReferences, sourceFilePath) ==
  IF crossReferences = <<>> THEN <<>>
  ELSE (IF ~Head(crossReferences).isValid
        THEN <<WarningMessage(files, Head(crossReferences), sourceFilePath)>>
        ELSE <<>>)
       \o GenerateWarnings(files, Tail(crossReferences), sourceFilePath)

(***************************************************************************)
(* MetadataParser (metadata-parser.ts)                                     *)
(*                                                                         *)
(* A metadata value is a record [type, text, flag, num, scale, items]:     *)
(* a string (text), a boolean (flag), null, a number (num / 10^scale, with *)
(* no trailing zero in the fraction) or an array of strings (items).       *)
(* A metadata object is a function from its keys to values.                *)
(***************************************************************************)
StrV(s) == [type |-> "string", text |-> s, flag |-> FALSE, num |-> 0, scale |-> 0, items |-> <<>>]
BoolV(b) == [type |-> "boolean", text |-> <<>>, flag |-> b, num |-> 0, scale |-> 0, items |-> <<>>]
NullV == [type |-> "null", text |-> <<>>, flag |-> FALSE, num |-> 0, scale |-> 0, items |-> <<>>]
ArrV(xs) == [type |-> "array", text |-> <<>>, flag |-> FALSE, num |-> 0, scale |-> 0, items |-> xs]

\* a number n / 10^k in lowest decimal form
RECURSIVE NumV(_, _)
NumV(n, k) ==
  IF k > 0 /\ n % 10 = 0 THEN NumV(n \div 10, k - 1)
  ELSE [type |-> "number", text |-> <<>>, flag |-> FALSE, num |-> n, scale |-> k, items |-> <<>>]

EmptyMap == [k \in {} |-> NullV]
MapPut(m, key, v) == [k \in DOMAIN m \cup {key} |-> IF k = key THEN v ELSE m[k]]
MapDelete(m, keys) == [k \in DOMAIN m \ keys |-> m[k]]
Has(m, key) == key \in DOMAIN m

\* String.prototype.trim
Trim(s) ==
  LET keep == {k \in 1..Len(s) : s[k] \notin Whitespace}
  IN IF keep = {} THEN <<>> ELSE SubSeq(s, SetMin(keep), SetMax(keep))

\* String.prototype.split with a one-character separator
RECURSIVE Split(_, _)
Split(s, sep) ==
  LET k == IndexOf(s, <<sep>>)
  IN IF k = 0 THEN <<s>>
     ELSE <<SubSeq(s, 1, k - 1)>> \o Split(Substring(s, k), sep)

Delimiter == <<"-", "-", "-">>
TrueWord == <<"t", "r", "u", "e">>
FalseWord == <<"f", "a", "l", "s", "e">>
NullWord == <<"n", "u", "l", "l">>
Tilde == <<"~">>
DigitChars == {"0", "1", "2", "3", "4", "5", "6", "7", "8", "9"}

AllDigits(s) == \A k \in 1..Len(s) : s[k] \in DigitChars

\* the digits of s read as a decimal number
RECURSIVE DigitsValue(_)
DigitsValue(s) ==
  IF s = <<>> THEN 0
  ELSE 10 * DigitsValue(SubSeq(s, 1, Len(s) - 1)) + (CharCode(s[Len(s)]) - CharCode("0"))

RECURSIVE Pow10(_)
Pow10(k) == IF k = 0 THEN 1 ELSE 10 * Pow10(k - 1)

Unsigned(value) == IF value # <<>> /\ value[1] = "-" THEN Tail(value) ELSE value
Sign(value) == IF value # <<>> /\ value[1] = "-" THEN -1 ELSE 1

\* /^-?\d+$/
IsIntegerText(value) == Unsigned(value) # <<>> /\ AllDigits(Unsigned(value))

\* /^-?\d*\.?\d+$/
IsFloatText(value) ==
  \E p \in 0..Len(Unsigned(value)) :
    /\ AllDigits(SubSeq(Unsigned(value), 1, p))
    /\ \/ /\ p + 1 <= Len(Unsigned(value))
          /\ AllDigits(SubSeq(Unsigned(value), p + 1, Len(Unsigned(value))))
       \/ /\ p + 2 <= Len(Unsigned(value))
          /\ Unsigned(value)[p + 1] = "."
          /\ AllDigits(SubSeq(Unsigned(value), p + 2, Len(Unsigned(value))))

\* parseInt(value, 10) of a text that matches /^-?\d+$/
ParseInt(value) == NumV(Sign(value) * DigitsValue(Unsigned(value)), 0)

\* parseFloat(value) of a text that matches /^-?\d*\.?\d+$/ and has a point
ParseFloat(value) ==
  NumV(Sign(value) *
         (DigitsValue(SubSeq(Unsigned(value), 1, IndexOf(Unsigned(value), <<".">>) - 1))
            * Pow10(Len(Unsigned(value)) - IndexOf(Unsigned(value), <<".">>))
          + DigitsValue(Substring(Unsigned(value), IndexOf(Unsigned(value), <<".">>)))),
       Len(Unsigned(value)) - IndexOf(Unsigned(value), <<".">>))

TrimAll(strs) == [k \in 1..Len(strs) |-> Trim(strs[k])]

\* a variant of ParseValue that tests for null before it tests for quotes
\* and booleans, and for an array before it tests for numbers
ParseValueReordered(value) ==
  IF value = <<>> THEN StrV(<<>>)
  ELSE IF ToLowerCase(value) = NullWord \/ ToLowerCase(value) = Tilde THEN NullV
  ELSE IF Includes(value, <<",">>) /\ ~Includes(value, <<" ">>)
  THEN ArrV(TrimAll(Split(value, ",")))
  ELSE IF \/ StartsWith(value, <<"\"">>) /\ EndsWith(value, <<"\"">>)
          \/ StartsWith(value, <<"'">>) /\ EndsWith(value, <<"'">>)
  THEN StrV(SubSeq(value, 2, Len(value) - 1))
  ELSE IF ToLowerCase(value) = TrueWord THEN BoolV(TRUE)
  ELSE IF ToLowerCase(value) = FalseWord THEN BoolV(FALSE)
  ELSE IF IsIntegerText(value) THEN ParseInt(value)
  ELSE IF IsFloatText(value) THEN ParseFloat(value)
  ELSE StrV(value)

\* parseValue
ParseValue(value) ==
  IF value = <<>> THEN StrV(<<>>)
  ELSE IF \/ StartsWith(value, <<"\"">>) /\ EndsWith(value, <<"\"">>)
          \/ StartsWith(value, <<"'">>) /\ EndsWith(value, <<"'">>)
  THEN StrV(SubSeq(value, 2, Len(value) - 1))
  ELSE IF ToLowerCase(value) = TrueWord THEN BoolV(TRUE)
  ELSE IF ToLowerCase(value) = FalseWord THEN BoolV(FALSE)
  ELSE IF ToLowerCase(value) = NullWord \/ ToLowerCase(value) = Tilde THEN NullV
  ELSE IF IsIntegerText(value) THEN ParseInt(value)
  ELSE IF IsFloatText(value) THEN ParseFloat(value)
  ELSE IF Includes(value, <<",">>) /\ ~Includes(value, <<" ">>)
  THEN ArrV(TrimAll(Split(value, ",")))
  ELSE StrV(value)

\* one iteration of the loop of parseMetadataLines, on the trimmed line
ParseMetadataLine(line, metadata) ==
  IF line = <<>> \/ IndexOf(line, <<":">>) <= 1 THEN metadata
  ELSE MapPut(metadata,
              Trim(SubSeq(line, 1, IndexOf(line, <<":">>) - 1)),
              IF Trim(Substring(line, IndexOf(line, <<":">>))) = <<>>
              THEN StrV(<<>>)
              ELSE ParseValue(Trim(Substring(line, IndexOf(line, <<":">>)))))

\* parseMetadataLines: a later line overwrites the entry of an earlier one
RECURSIVE ParseMetadataLines(_, _)
ParseMetadataLines(metadataLines, metadata) ==
  IF metadataLines = <<>> THEN metadata
  ELSE ParseMetadataLines(Tail(metadataLines),
                          ParseMetadataLine(Trim(Head(metadataLines)), metadata))

\* the indexes i >= 1 (here from 2) of the lines with lines[i].trim() === '---'
ClosingLines(lines) == {i \in 2..Len(lines) : Trim(lines[i]) = Delimiter}

\* parseMetadata once the closing line is found
ParseBlock(lines, metadataEndIndex) ==
  [metadata |-> ParseMetadataLines(SubSeq(lines, 2, metadataEndIndex - 1), EmptyMap),
   content |-> Trim(JoinWith(SubSeq(lines, metadataEndIndex + 1, Len(lines)), <<"\n">>))]

\* a variant of ParseTrimmed that requires the first line to be exactly '---'
ParseTrimmedExact(trimmedContent) ==
  IF \/ Split(trimmedContent, "\n")[1] # Delimiter
     \/ ClosingLines(Split(trimmedContent, "\n")) = {}
  THEN [metadata |-> EmptyMap, content |-> trimmedContent]
  ELSE ParseBlock(Split(trimmedContent, "\n"),
                  SetMin(ClosingLines(Split(trimmedContent, "\n"))))

\* parseMetadata after content.trim()
ParseTrimmed(trimmedContent) ==
  IF \/ ~StartsWith(trimmedContent, Delimiter)
     \/ ClosingLines(Split(trimmedContent, "\n")) = {}
  THEN [metadata |-> EmptyMap, content |-> trimmedContent]
  ELSE ParseBlock(Split(trimmedContent, "\n"),
                  SetMin(ClosingLines(Split(trimmedContent, "\n"))))

ParseMetadata(content) == ParseTrimmed(Trim(content))

GlobsKey == <<"g", "l", "o", "b", "s">>
AlwaysApplyKey == <<"a", "l", "w", "a", "y", "s", "A", "p", "p", "l", "y">>
TitleKey == <<"t", "i", "t", "l", "e">>
DescriptionKey == <<"d", "e", "s", "c", "r", "i", "p", "t", "i", "o", "n">>

\* the globs step of parseWithNormalization
NormalizeGlobs(m) ==
  IF ~Has(m, GlobsKey) THEN MapPut(m, GlobsKey, ArrV(<<>>))
  ELSE IF m[GlobsKey].type # "string" THEN m
  ELSE IF Trim(m[GlobsKey].text) = <<>> THEN MapPut(m, GlobsKey, ArrV(<<>>))
  ELSE MapPut(m, GlobsKey, ArrV(<<m[GlobsKey].text>>))

\* the alwaysApply step of parseWithNormalization
NormalizeAlwaysApply(m) ==
  IF ~Has(m, AlwaysApplyKey) THEN MapPut(m, AlwaysApplyKey, BoolV(FALSE))
  ELSE IF m[AlwaysApplyKey].type # "string" THEN m
  ELSE MapPut(m, AlwaysApplyKey, BoolV(ToLowerCase(m[AlwaysApplyKey].text) = TrueWord))

\* the cleanup step of parseWithNormalization
RemoveNulls(m) == MapDelete(m, {k \in DOMAIN m : m[k].type = "null"})

\* a variant of Normalize that keeps the keys whose value is null
NormalizeKeepNulls(m) == NormalizeAlwaysApply(NormalizeGlobs(m))

\* the normalization of parseWithNormalization, on the parsed metadata
Normalize(m) == RemoveNulls(NormalizeAlwaysApply(NormalizeGlobs(m)))

ParseWithNormalization(content) ==
  [metadata |-> Normalize(ParseMetadata(content).metadata),
   content |-> ParseMetadata(content).content]

\* \w and String.prototype.toUpperCase for one character
IsWordChar(c) ==
  \/ c = "_"
  \/ CharCode(c) >= CharCode("0") /\ CharCode(c) <= CharCode("9")
  \/ CharCode(c) >= CharCode("A") /\ CharCode(c) <= CharCode("Z")
  \/ CharCode(c) >= CharCode("a") /\ CharCode(c) <= CharCode("z")

ToUpperChar(c) ==
  IF CharCode(c) >= CharCode("a") /\ CharCode(c) <= CharCode("z")
  THEN AsciiTable[CharCode(c) - LowerOffset] ELSE c

\* s.replace(/[-_]/g, ' ')
SpacesForSeparators(s) == [k \in 1..Len(s) |-> IF s[k] \in {"-", "_"} THEN " " ELSE s[k]]

\* s.replace(/\b\w/g, l => l.toUpperCase())
CapitalizeWords(s) ==
  [k \in 1..Len(s) |->
     IF IsWordChar(s[k]) /\ (k = 1 \/ ~IsWordChar(s[k - 1]))
     THEN ToUpperChar(s[k]) ELSE s[k]]

\* content.match(/^#\s+(.+)$/m): the positions of a '#' at the start of a line
\* from which the pattern matches
HeadingStarts(content) ==
  {i \in 1..(Len(content) - 2) :
     /\ i = 1 \/ content[i - 1] \in LineTerminators
     /\ content[i] = "#"
     /\ content[i + 1] \in Whitespace
     /\ \E j \in (i + 2)..Len(content) :
          /\ content[j] \notin LineTerminators
          /\ \A k \in (i + 1)..(j - 1) : content[k] \in Whitespace}

\* headingMatch[1].trim() of the match that starts at i: \s+ is greedy, so
\* the group starts after the whole run of whitespace when a character
\* follows it, and holds only whitespace otherwise
HeadingText(content, i) ==
  IF SkipSpaces(content, i + 1) <= Len(content)
  THEN Trim(SubSeq(content, SkipSpaces(content, i + 1),
                   RunEnd(content, SkipSpaces(content, i + 1), LineTerminators)))
  ELSE <<>>

\* the fallback of extractTitle: the file name without extension
FileTitle(relativePath) == CapitalizeWords(SpacesForSeparators(Basename(relativePath)))

IsNonEmptyString(m, key) == Has(m, key) /\ m[key].type = "string" /\ m[key].text # <<>>

\* extractTitle
ExtractTitle(metadata, content, relativePath) ==
  IF IsNonEmptyString(metadata, TitleKey) THEN metadata[TitleKey].text
  ELSE IF IsNonEmptyString(metadata, DescriptionKey) THEN metadata[DescriptionKey].text
  ELSE IF HeadingStarts(content) # {}
  THEN HeadingText(content, SetMin(HeadingStarts(content)))
  ELSE FileTitle(relativePath)

(***************************************************************************)
(* LinkResolver.getResolutionStats                                         *)
(***************************************************************************)
\* Math.round(x * 100) / 100 of x = valid / total * 100, as a number with
\* two decimals: Math.round rounds a half up
RoundedRate(valid, total) == NumV((2 * valid * 10000 + total) \div (2 * total), 2)

CountValid(crossReferences) ==
  Cardinality({k \in 1..Len(crossReferences) : crossReferences[k].isValid})

\* a variant of GetResolutionStats that truncates the rate to two decimals
GetResolutionStatsTruncated(allCrossReferences) ==
  [total |-> Len(allCrossReferences),
   valid |-> CountValid(allCrossReferences),
   broken |-> Len(allCrossReferences) - CountValid(allCrossReferences),
   successRate |-> IF Len(allCrossReferences) > 0
                   THEN NumV((CountValid(allCrossReferences) * 10000)
                               \div Len(allCrossReferences), 2)
                   ELSE NumV(100, 0)]

GetResolutionStats(allCrossReferences) ==
  [total |-> Len(allCrossReferences),
   valid |-> CountValid(allCrossReferences),
   broken |-> Len(allCrossReferences) - CountValid(allCrossReferences),
   successRate |-> IF Len(allCrossReferences) > 0
                   THEN RoundedRate(CountValid(allCrossReferences), Len(allCrossReferences))
                   ELSE NumV(100, 0)]

NoStats == [total |-> 0, valid |-> 0, broken |-> 0, successRate |-> NumV(0, 0)]

(***************************************************************************)
(* SidebarGenerator                                                        *)
(***************************************************************************)
SidebarPositionKey == <<"s", "i", "d", "e", "b", "a", "r", "_", "p", "o", "s", "i", "t", "i", "o", "n">>
SidebarPositionCamelKey == <<"s", "i", "d", "e", "b", "a", "r", "P", "o", "s", "i", "t", "i", "o", "n">>

NoPosition == [has |-> FALSE, num |-> 0, scale |-> 0]
PositionOf(v) == [has |-> TRUE, num |-> v.num, scale |-> v.scale]

\* the truthiness of a metadata value, as the operator || tests it
Truthy(v) ==
  CASE v.type = "string" -> v.text # <<>>
    [] v.type = "boolean" -> v.flag
    [] v.type = "number" -> v.num # 0
    [] v.type = "null" -> FALSE
    [] OTHER -> TRUE

\* the characters of s from its first non-whitespace character on
TrimStart(s) ==
  IF \A k \in 1..Len(s) : s[k] \in Whitespace THEN <<>>
  ELSE SubSeq(s, SetMin({k \in 1..Len(s) : s[k] \notin Whitespace}), Len(s))

SignChars == {"-", "+"}
Unsigned10(t) == IF t # <<>> /\ t[1] \in SignChars THEN Tail(t) ELSE t
LeadingDigits(t) == SubSeq(t, 1, RunEnd(t, 1, {c \in Range(t) : c \notin DigitChars}))

\* parseInt(text, 10), followed by the isNaN test of extractSidebarPosition
ParseIntPrefix(text) ==
  IF LeadingDigits(Unsigned10(TrimStart(text))) = <<>> THEN NoPosition
  ELSE PositionOf(NumV(Sign(TrimStart(text))
                         * DigitsValue(LeadingDigits(Unsigned10(TrimStart(text)))), 0))

\* metadata.sidebar_position || metadata.sidebarPosition; an absent entry
\* (undefined) is given as null, which is neither a number nor a string
PositionValue(metadata) ==
  IF Has(metadata, SidebarPositionKey) /\ Truthy(metadata[SidebarPositionKey])
  THEN metadata[SidebarPositionKey]
  ELSE IF Has(metadata, SidebarPositionCamelKey) THEN metadata[SidebarPositionCamelKey]
  ELSE NullV

PositionFromValue(position) ==
  IF position.type = "number" THEN PositionOf(position)
  ELSE IF position.type = "string" THEN ParseIntPrefix(position.text)
  ELSE NoPosition

\* extractSidebarPosition
ExtractSidebarPosition(metadata) == PositionFromValue(PositionValue(metadata))

\* word.charAt(0).toUpperCase() + word.slice(1).toLowerCase()
CapitalizeWord(word) ==
  [k \in 1..Len(word) |-> IF k = 1 THEN ToUpperChar(word[k]) ELSE ToLowerChar(word[k])]

\* dirName.split(/[-_]/)
SplitWords(dirName) == Split(SpacesForSeparators(dirName), " ")

\* formatDirectoryLabel; the names of the directories hold no space
FormatDirectoryLabel(dirName) ==
  JoinWith([k \in 1..Len(SplitWords(dirName)) |-> CapitalizeWord(SplitWords(dirName)[k])],
           <<" ">>)

\* the sign of the comparison of two sequences of numbers, element by element
FirstDifference(a, b) ==
  SetMin({k \in 1..Len(a) : k > Len(b) \/ a[k] # b[k]} \cup {Len(a) + 1})
CompareAt(a, b, d) ==
  IF d <= Len(a) /\ d <= Len(b) THEN (IF a[d] < b[d] THEN -1 ELSE 1)
  ELSE IF Len(a) < Len(b) THEN -1
  ELSE IF Len(a) > Len(b) THEN 1
  ELSE 0
CompareSeq(a, b) == CompareAt(a, b, FirstDifference(a, b))

\* the collation of a label of letters, digits and spaces: the letters
\* whatever their case, after the digits, after the space
PrimaryWeights(label) == [k \in 1..Len(label) |-> CharCode(ToLowerChar(label[k]))]
\* and, between labels with the same letters, lower case before upper case
CaseWeights(label) == [k \in 1..Len(label) |-> IF ToLowerChar(label[k]) = label[k] THEN 0 ELSE 1]

\* a.localeCompare(b) in the default (English) locale, its sign
LocaleCompare(a, b) ==
  IF CompareSeq(PrimaryWeights(a), PrimaryWeights(b)) # 0
  THEN CompareSeq(PrimaryWeights(a), PrimaryWeights(b))
  ELSE CompareSeq(CaseWeights(a), CaseWeights(b))

\* a.position - b.position, its sign
PositionDifference(a, b) ==
  IF a.num * Pow10(b.scale) < b.num * Pow10(a.scale) THEN -1
  ELSE IF a.num * Pow10(b.scale) > b.num * Pow10(a.scale) THEN 1
  ELSE 0

\* a variant of CompareItems that ignores the positions
CompareItemsByLabel(a, b) == LocaleCompare(a.label, b.label)

\* the comparison function of sortSidebarItems
CompareItems(a, b) ==
  IF a.position.has /\ b.position.has THEN PositionDifference(a.position, b.position)
  ELSE IF a.position.has THEN -1
  ELSE IF b.position.has THEN 1
  ELSE LocaleCompare(a.label, b.label)

\* one item put into a sorted list, behind the items that do not come after it
InsertItem(sorted, item) ==
  SubSeq(sorted, 1, Cardinality({k \in 1..Len(sorted) : CompareItems(sorted[k], item) <= 0}))
    \o <<item>>
    \o SubSeq(sorted, Cardinality({k \in 1..Len(sorted) : CompareItems(sorted[k], item) <= 0}) + 1,
              Len(sorted))

\* items.sort(compare): Array.prototype.sort is stable
RECURSIVE SortSidebarItems(_)
SortSidebarItems(items) ==
  IF items = <<>> THEN <<>>
  ELSE InsertItem(SortSidebarItems(SubSeq(items, 1, Len(items) - 1)), items[Len(items)])

NewDirectory(name, dirPath) ==
  [name |-> name, path |-> dirPath, children |-> <<>>, items |-> <<>>]

\* rule.filePath.split(path.sep).filter(part => part.length > 0) (POSIX)
PathParts(filePath) == SelectSeq(Split(filePath, "/"), LAMBDA part : part # <<>>)

ChildIndex(node, dirName) ==
  SetMin({k \in 1..Len(node.children) : node.children[k].name = dirName}
           \cup {Len(node.children) + 1})

\* addFileToTree from the i-th path part on: the directory is created when
\* it is not yet a child, and the file is pushed to the items of the last one
RECURSIVE AddFileAt(_, _, _, _)
AddFileAt(node, pathParts, i, rule) ==
  IF i >= Len(pathParts) THEN [node EXCEPT !.items = Append(@, rule)]
  ELSE IF ChildIndex(node, pathParts[i]) > Len(node.children)
  THEN [node EXCEPT !.children =
          Append(@, AddFileAt(NewDirectory(pathParts[i],
                                           JoinWith(SubSeq(pathParts, 1, i), <<"/">>)),
                              pathParts, i + 1, rule))]
  ELSE [node EXCEPT !.children[ChildIndex(node, pathParts[i])] =
          AddFileAt(@, pathParts, i + 1, rule)]

\* a variant of AddFileToTree that puts every file into the root directory
AddFileToTreeFlat(root, rule) == [root EXCEPT !.items = Append(@, rule)]

AddFileToTree(root, rule) == AddFileAt(root, PathParts(rule.filePath), 1, rule)

RECURSIVE BuildDirectoryTreeFrom(_, _)
BuildDirectoryTreeFrom(root, ruleContent) ==
  IF ruleContent = <<>> THEN root
  ELSE BuildDirectoryTreeFrom(AddFileToTree(root, Head(ruleContent)), Tail(ruleContent))

\* buildDirectoryTree
BuildDirectoryTree(ruleContent) == BuildDirectoryTreeFrom(NewDirectory(<<>>, <<>>), ruleContent)

\* createSidebarItemFromFile
CreateSidebarItemFromFile(rule) ==
  [type |-> "link", label |-> rule.title, href |-> rule.permalink,
   position |-> ExtractSidebarPosition(rule.metadata), items |-> <<>>, collapsed |-> FALSE]

\* convertTreeToSidebarItems, with createSidebarItemFromDirectory for the
\* subdirectories: the files first, the categories after them, then the sort
RECURSIVE ConvertTreeToSidebarItems(_)
ConvertTreeToSidebarItems(tree) ==
  SortSidebarItems(
    [k \in 1..Len(tree.items) |-> CreateSidebarItemFromFile(tree.items[k])]
      \o [k \in 1..Len(tree.children) |->
            [type |-> "category", label |-> FormatDirectoryLabel(tree.children[k].name),
             href |-> <<>>, position |-> NoPosition,
             items |-> ConvertTreeToSidebarItems(tree.children[k]), collapsed |-> TRUE]])

\* generateSidebar
GenerateSidebar(ruleContent) == ConvertTreeToSidebarItems(BuildDirectoryTree(ruleContent))

(***************************************************************************)
(* ContentLoader: the environment and the inputs of the model              *)
(***************************************************************************)
\* bounds of the model
MaxFiles == 2
MaxSegs == 2

\* config.crossReferenceBase: path.join(baseUrl, targetPath) of the default
\* configuration
CrossReferenceBase == RulesBase
ProjectRoot == <<"/", "t", "e", "s", "t", "/", "s", "i", "t", "e">>

\* the .mdc files that may exist under the source directory, by their path
\* relative to it (path.relative(sourceDir, filePath) of processFile)
FileA == <<"a", ".", "m", "d", "c">>
FileB == <<"m", "/", "b", ".", "m", "d", "c">>
FileC == <<"c", ".", "m", "d", "c">>
FilePaths == {FileA, FileB, FileC}

\* sequences of distinct files, as the enumerator may return them
FileLists(n) ==
  {fl \in UNION {[1..k -> FilePaths] : k \in 0..n} :
     \A x, y \in 1..Len(fl) : x # y => fl[x] # fl[y]}

\* file text (without metadata block) and renderer outputs used by the runs
RawText == <<".", "/", "c", ".", "m", "d", "c">>
PreOpen == <<"<", "p", "r", "e", ">">>
PreClose == <<"<", "/", "p", "r", "e", ">">>
Html1 ==
  <<"<", "a", " ", "h", "r", "e", "f", "=", "\"", ".", "/", "a", ".", "m",
    "d", "c", "\"", ">", "x", "<", "/", "a", ">", " ", ".", "/", "m", "/",
    "b", ".", "m", "d", "c">>
Html2 ==
  <<"m", "d", "c", ":", ".", "c", "u", "r", "s", "o", "r", "/", "r", "u",
    "l", "e", "s", "/", "c", ".", "m", "d", "c", " ", ".", "c", "u", "r",
    "s", "o", "r", "/", "r", "u", "l", "e", "s", "/", "a", ".", "m", "d",
    "c">>
Html3 == <<"n", "o", " ", "r", "e", "f", "s">>
Html4 == <<".", "/", "m", "/", "b", ".", "m", "d", "c", " ", ".", "/", "c", ".",
    "m", "d", "c">>
\* a heading with the id the renderer gives it, followed by a reference
Html5 ==
  <<"<", "h", "2", " ", "i", "d", "=", "\"", "t", "\"", ">", "T", "<", "/", "h", "2", ">", " ", ".", "/", "a", ".", "m", "d", "c">>
HtmlBodies == {Html1, Html2, Html3, Html4, Html5}

\* the modification time the file system reports
Timestamp == <<"2", "0", "2", "4", "-", "0", "1", "-", "0", "1", "T", "0", "0", ":", "0", "0", ":", "0", "0", ".", "0", "0", "0", "Z">>

Null ==
  [filePath |-> <<>>, id |-> <<>>, title |-> <<>>, content |-> <<>>, metadata |-> EmptyMap,
   permalink |-> <<>>, toc |-> <<>>]
NoResult == [content |-> <<>>, crossReferences |-> <<>>, warnings |-> <<>>, errors |-> <<>>]

NotFoundPrefix ==
  <<"S", "o", "u", "r", "c", "e", " ", "d", "i", "r", "e", "c", "t", "o",
    "r", "y", " ", "n", "o", "t", " ", "f", "o", "u", "n", "d", ":", " ">>

\* path.resolve(projectRoot, config.sourceDir)
ResolvedSourceDir(srcDir) == PathJoin(ProjectRoot, srcDir)

\* a variant of GeneratePermalink that keeps the extension
GeneratePermalinkKeepExt(relativePath) ==
  PathJoin(CrossReferenceBase, NormalizeSeparators(relativePath))

GeneratePermalink(relativePath) ==
  PathJoin(CrossReferenceBase, NormalizeSeparators(StripMdcExt(relativePath)))

\* a variant of ProcessMarkdown whose fallback returns the text unwrapped
ProcessMarkdownNoWrapper(content, render) ==
  IF render.throws THEN content ELSE render.html

\* processMarkdown: the renderer's output, or the <pre> fallback when the
\* renderer throws
ProcessMarkdown(content, render) ==
  IF render.throws THEN PreOpen \o content \o PreClose ELSE render.html

(***************************************************************************)
(* ContentLoader.extractTOC: the headings of the rendered text, by the     *)
(* pattern  <hN, optionally whitespace and id="...", anything up to '>',   *)
(* the shortest text up to a closing /hN tag, letter case ignored          *)
(***************************************************************************)
HeadingLevels == {"1", "2", "3", "4", "5", "6"}
IdOpen == <<"i", "d", "=", "\"">>
NoHeading == [end |-> 0, id |-> <<>>, from |-> 0, to |-> 0]

\* <(h[1-6]) at position i, and <\/h[1-6]> at position k
HeadingOpenAt(s, i) ==
  /\ i + 2 <= Len(s)
  /\ s[i] = "<"
  /\ s[i + 1] \in {"h", "H"}
  /\ s[i + 2] \in HeadingLevels

HeadingCloseAt(s, k) ==
  /\ k + 4 <= Len(s)
  /\ s[k] = "<"
  /\ s[k + 1] = "/"
  /\ s[k + 2] \in {"h", "H"}
  /\ s[k + 3] \in HeadingLevels
  /\ s[k + 4] = ">"

\* the optional group, whitespace and id="...", at position j: whether it matches
IdGroupAt(s, j) ==
  /\ j <= Len(s)
  /\ s[j] \in Whitespace
  /\ StartsAt(ToLowerCase(s), SkipSpaces(s, j), IdOpen)
  /\ RunEnd(s, SkipSpaces(s, j) + 4, {"\""}) < Len(s)

\* the rest of the pattern from position j, for a heading of the given id:
\* the first '>', then the nearest closing tag on the same line
HeadingRestAt(s, j, id) ==
  LET gt == RunEnd(s, j, {">"}) + 1
      closes == {k \in (gt + 1)..(RunEnd(s, gt + 1, LineTerminators) - 4) :
                   HeadingCloseAt(s, k)}
  IN IF gt > Len(s) \/ closes = {} THEN NoHeading
     ELSE [end |-> SetMin(closes) + 4, id |-> id, from |-> gt + 1, to |-> SetMin(closes) - 1]

\* the pattern with the id group taken
HeadingWithIdAt(s, i) ==
  IF ~IdGroupAt(s, i + 3) THEN NoHeading
  ELSE HeadingRestAt(s, RunEnd(s, SkipSpaces(s, i + 3) + 4, {"\""}) + 2,
                     SubSeq(s, SkipSpaces(s, i + 3) + 4,
                            RunEnd(s, SkipSpaces(s, i + 3) + 4, {"\""})))

\* the pattern at position i: the optional group is tried first
HeadingMatchAt(s, i) ==
  IF ~HeadingOpenAt(s, i) THEN NoHeading
  ELSE IF HeadingWithIdAt(s, i).end # 0 THEN HeadingWithIdAt(s, i)
  ELSE HeadingRestAt(s, i + 3, <<>>)

\* htmlContent.replace(/<[^>]*>/g, '')
RECURSIVE StripTags(_)
StripTags(s) ==
  LET opens == {k \in 1..Len(s) : s[k] = "<" /\ RunEnd(s, k + 1, {">"}) < Len(s)}
  IN IF opens = {} THEN s
     ELSE SubSeq(s, 1, SetMin(opens) - 1)
            \o StripTags(SubSeq(s, RunEnd(s, SetMin(opens) + 1, {">"}) + 2, Len(s)))

\* the item pushed for a match that starts at i, when it has an id and a text
TocItems(s, i, h) ==
  IF h.id # <<>> /\ Trim(StripTags(SubSeq(s, h.from, h.to))) # <<>>
  THEN <<[value |-> Trim(StripTags(SubSeq(s, h.from, h.to))), id |-> h.id,
          level |-> CharCode(s[i + 2]) - CharCode("0")]>>
  ELSE <<>>

RECURSIVE ExtractTOCFrom(_, _)
ExtractTOCFrom(s, i) ==
  IF i > Len(s) THEN <<>>
  ELSE IF HeadingMatchAt(s, i).end = 0 THEN ExtractTOCFrom(s, i + 1)
  ELSE TocItems(s, i, HeadingMatchAt(s, i)) \o ExtractTOCFrom(s, HeadingMatchAt(s, i).end + 1)

ExtractTOC(htmlContent) == ExtractTOCFrom(htmlContent, 1)

SourceFileKey == <<"s", "o", "u", "r", "c", "e", "F", "i", "l", "e">>
LastModifiedKey == <<"l", "a", "s", "t", "M", "o", "d", "i", "f", "i", "e", "d">>

\* processFile: every exception raised inside is caught and turned into null
ProcessFile(relativePath, env) ==
  IF env.readThrows THEN Null
  ELSE [id |-> NormalizeSeparators(StripMdcExt(relativePath)),
        filePath |-> relativePath,
        title |-> ExtractTitle(ParseWithNormalization(env.text).metadata,
                               ParseWithNormalization(env.text).content, relativePath),
        content |-> ProcessMarkdown(ParseWithNormalization(env.text).content, env.render),
        metadata |-> MapPut(MapPut(ParseWithNormalization(env.text).metadata, SourceFileKey,
                                   StrV(PathJoin(DefaultSourceDir, relativePath))),
                            LastModifiedKey, StrV(env.mtime)),
        permalink |-> GeneratePermalink(relativePath),
        toc |-> ExtractTOC(ProcessMarkdown(ParseWithNormalization(env.text).content,
                                           env.render))]

\* the text the catch of loadContent puts before the message of the failure
FatalPrefix ==
  <<"E", "r", "r", "o", "r", " ", "l", "o", "a", "d", "i", "n", "g", " ", "c", "o", "n", "t",
    "e", "n", "t", " ", "f", "r", "o", "m", " ">>

\* what the file system and the renderer may do for one file
FileEnvs ==
  {[readThrows |-> TRUE, text |-> <<>>, mtime |-> Timestamp,
    render |-> [throws |-> FALSE, html |-> <<>>]]}
  \cup {[readThrows |-> FALSE, text |-> RawText, mtime |-> Timestamp,
         render |-> [throws |-> TRUE, html |-> <<>>]]}
  \cup {[readThrows |-> FALSE, text |-> RawText, mtime |-> Timestamp,
         render |-> [throws |-> FALSE, html |-> h]] : h \in HtmlBodies}

(***************************************************************************)
(* Bodies given to resolveLinks: a body is a list of segments separated by *)
(* one space; a segment is plain text, a bare reference or a hyperlink.    *)
(* A reference names a path p (without extension) in one of the forms      *)
(*   dot ./p.mdc, root S/p.mdc, dotroot ./S/p.mdc, scheme mdc:S/p.mdc      *)
(* where S is the configured source directory.                             *)
(***************************************************************************)
PathA == <<"a">>
PathB == <<"m", "/", "b">>
PathBBackslash == <<"m", "\\", "b">>
LabelX == <<"x">>
LabelRef == DotSlash \o PathA \o MdcExt
LabelCode == <<"<", "c", "o", "d", "e", ">", "x", "<", "/", "c", "o", "d", "e", ">">>
PlainWord == <<"s", "e", "e">>
OtherAnchor == <<"<", "a", " ", "h", "r", "e", "f", "=", "\"", ".", "/", "f",
               ".", "t", "x", "t", "\"", ">", "x", "<", "/", "a", ">">>
\* texts that hold no reference: the malformed patterns, whitespace, a
\* hyperlink to an external page
BareExt == MdcExt
FileNoPrefix == <<"f", "i", "l", "e", ".", "m", "d", "c">>
DotSlashExt == DotSlash \o MdcExt
BlankText == <<" ", "\n", "\t", "\r", "\n">>
ExternalAnchor ==
  <<"<", "a", " ", "h", "r", "e", "f", "=", "\"", "h", "t", "t", "p", "s", ":", "/", "/", "g", ".", "c", "o", "\"", ">", "G", "<", "/", "a", ">">>
LinkSource == <<"s", "r", "c", "/", "t", ".", "m", "d", "c">>

TextSeg(t) == [kind |-> "text", form |-> "none", path |-> <<>>, label |-> <<>>, text |-> t]
BareSeg(f, p) == [kind |-> "bare", form |-> f, path |-> p, label |-> <<>>, text |-> <<>>]
AnchorSeg(f, p, l) == [kind |-> "anchor", form |-> f, path |-> p, label |-> l, text |-> <<>>]

Segments ==
  {TextSeg(PlainWord), TextSeg(OtherAnchor), TextSeg(BareExt),
   TextSeg(FileNoPrefix), TextSeg(DotSlashExt), TextSeg(BlankText),
   TextSeg(ExternalAnchor),
   BareSeg("dot", PathA), BareSeg("root", PathB), BareSeg("dotroot", PathA),
   BareSeg("scheme", PathB), BareSeg("dot", PathBBackslash),
   AnchorSeg("dot", PathA, LabelX), AnchorSeg("root", PathB, LabelX),
   AnchorSeg("scheme", PathA, LabelX), AnchorSeg("dot", PathB, LabelRef),
   AnchorSeg("dot", PathA, LabelCode)}

SegLists(n) == UNION {[1..k -> Segments] : k \in 0..n}

\* the reference text of a segment, as written in the body
RefText(srcDir, seg) ==
  LET tail == seg.path \o MdcExt
  IN CASE seg.form = "dot" -> DotSlash \o tail
       [] seg.form = "root" -> srcDir \o <<"/">> \o tail
       [] seg.form = "dotroot" -> DotSlash \o srcDir \o <<"/">> \o tail
       [] seg.form = "scheme" -> MdcScheme \o srcDir \o <<"/">> \o tail

AnchorText(href, label) == AHrefOpen \o href \o TagClose \o label \o AClose

SegText(srcDir, seg) ==
  CASE seg.kind = "text" -> seg.text
    [] seg.kind = "bare" -> RefText(srcDir, seg)
    [] seg.kind = "anchor" -> AnchorText(RefText(srcDir, seg), seg.label)

BodyOf(srcDir, segs) ==
  JoinWith([k \in 1..Len(segs) |-> SegText(srcDir, segs[k])], <<" ">>)

IsRefSeg(seg) == seg.kind # "text"
RefSegs(segs) == SelectSeq(segs, IsRefSeg)

\* the permalink the reference of a segment is meant to point to, and whether
\* the document it names is known
IntendedTarget(seg) == PathJoin(CrossReferenceBase, NormalizeSeparators(seg.path))
IntendedValid(files, seg) ==
  \/ (seg.path \o MdcExt) \in Range(files)
  \/ NormalizeSeparators(seg.path \o MdcExt) \in Range(files)

\* a document as setDiscoveredFiles receives it
DocOf(relativePath) ==
  ProcessFile(relativePath,
              [readThrows |-> FALSE, text |-> RawText, mtime |-> Timestamp,
               render |-> [throws |-> FALSE, html |-> Html3]])

(***************************************************************************)
(* State                                                                   *)
(***************************************************************************)
VARIABLES
  sourceDir,          \* config.sourceDir
  discoveredFiles,    \* LinkResolver.discoveredFiles: its keys, in insertion order
  pc,                 \* position of loadContent
  dirExists,          \* environment: fs.existsSync(sourceDir)
  globThrows,         \* environment: the file enumerator throws
  fsFiles,            \* environment: the files the enumerator finds
  mdcFiles,           \* loadContent: mdcFiles
  idx,                \* loadContent: position of either for-loop
  processedContent,   \* loadContent: processedContent
  warnings,           \* loadContent: warnings
  errors,             \* loadContent: errors
  allCrossReferences, \* loadContent: allCrossReferences
  result,             \* the ProcessingResult returned by loadContent
  stats,              \* loadContent: stats, the statistics it logs
  globCalls,          \* history: calls of the file enumerator
  setCalls,           \* history: calls of setDiscoveredFiles
  transformLog,       \* history: per enumerated file, what its transform did
  resolveLog,         \* history: per resolveLinks call, the index it ran against and its result
  linkPc,             \* position of the LinkResolver scenario
  linkSegs,           \* the segments of the body given to resolveLinks
  linkBody,           \* the body given to resolveLinks
  linkOut,            \* what resolveLinks returned
  linkWarnings,       \* what generateWarnings returned
  metaPc,             \* position of the MetadataParser scenario
  metaText,           \* the file text given to the parser
  metaValue,          \* the raw value given to parseValue
  metaParsed,         \* what parseMetadata returned
  metaNormalized,     \* what parseWithNormalization returned
  metaRenormalized,   \* the normalization step applied to its own output
  metaTitle,          \* what extractTitle returned
  metaPath,           \* the relativePath extractTitle was given
  metaCoerced,        \* what parseValue returned
  sidebarPc,          \* position of the SidebarGenerator scenario
  sidebarDocs,        \* the documents given to generateSidebar
  sidebarItems        \* what generateSidebar returned

vars == <<sourceDir, discoveredFiles, pc, dirExists, globThrows, fsFiles, mdcFiles, idx,
          processedContent, warnings, errors, allCrossReferences, result, stats,
          globCalls, setCalls, transformLog, resolveLog,
          linkPc, linkSegs, linkBody, linkOut, linkWarnings,
          metaPc, metaText, metaValue, metaParsed, metaNormalized, metaRenormalized,
          metaTitle, metaPath, metaCoerced, sidebarPc, sidebarDocs, sidebarItems>>

loaderVars == <<pc, dirExists, globThrows, fsFiles, mdcFiles, idx, processedContent, warnings,
                errors, allCrossReferences, result, stats, globCalls, setCalls,
                transformLog, resolveLog>>
linkVars == <<linkPc, linkSegs, linkBody, linkOut, linkWarnings>>
metaVars == <<metaPc, metaText, metaValue, metaParsed, metaNormalized, metaRenormalized,
              metaTitle, metaPath, metaCoerced>>
sidebarVars == <<sidebarPc, sidebarDocs, sidebarItems>>

NoOutput == [content |-> <<>>, crossReferences |-> <<>>]

LoaderIdle ==
  /\ pc = "idle"
  /\ dirExists = TRUE
  /\ globThrows = FALSE
  /\ fsFiles = <<>>
  /\ mdcFiles = <<>>
  /\ idx = 0
  /\ processedContent = <<>>
  /\ warnings = <<>>
  /\ errors = <<>>
  /\ allCrossReferences = <<>>
  /\ result = NoResult
  /\ stats = NoStats
  /\ globCalls = 0
  /\ setCalls = 0
  /\ transformLog = <<>>
  /\ resolveLog = <<>>

LinkIdle ==
  /\ linkPc = "idle"
  /\ linkSegs = <<>>
  /\ linkBody = <<>>
  /\ linkOut = NoOutput
  /\ linkWarnings = <<>>

NoParse == [metadata |-> EmptyMap, content |-> <<>>]

MetaIdle ==
  /\ metaPc = "idle"
  /\ metaText = <<>>
  /\ metaValue = <<>>
  /\ metaParsed = NoParse
  /\ metaNormalized = NoParse
  /\ metaRenormalized = EmptyMap
  /\ metaTitle = <<>>
  /\ metaPath = <<>>
  /\ metaCoerced = NullV

SidebarIdle ==
  /\ sidebarPc = "idle"
  /\ sidebarDocs = <<>>
  /\ sidebarItems = <<>>

(***************************************************************************)
(* ContentLoader.loadContent, one action per step                          *)
(***************************************************************************)
\* new ContentLoader(config, projectRoot) with the default configuration
Init ==
  /\ sourceDir = DefaultSourceDir
  /\ discoveredFiles = <<>>
  /\ pc = "start"
  /\ dirExists \in BOOLEAN
  /\ globThrows \in BOOLEAN
  /\ fsFiles \in FileLists(MaxFiles)
  /\ mdcFiles = <<>>
  /\ idx = 0
  /\ processedContent = <<>>
  /\ warnings = <<>>
  /\ errors = <<>>
  /\ allCrossReferences = <<>>
  /\ result = NoResult
  /\ stats = NoStats
  /\ globCalls = 0
  /\ setCalls = 0
  /\ transformLog = <<>>
  /\ resolveLog = <<>>
  /\ LinkIdle
  /\ MetaIdle
  /\ SidebarIdle

\* a variant of CheckSourceDir that records the warning but does not return
CheckSourceDirNoReturn ==
  /\ pc = "start"
  /\ warnings' = IF ~dirExists
                 THEN <<NotFoundPrefix \o ResolvedSourceDir(sourceDir)>>
                 ELSE warnings
  /\ pc' = "discover"
  /\ UNCHANGED <<sourceDir, discoveredFiles, dirExists, globThrows, fsFiles, mdcFiles, idx,
                 processedContent, errors, allCrossReferences, result,
                 globCalls, setCalls, transformLog, resolveLog, stats, linkVars, metaVars,
                 sidebarVars>>

\* the existence check of the source directory, and the early return
CheckSourceDir ==
  /\ pc = "start"
  /\ IF ~dirExists
     THEN /\ result' = [content |-> <<>>, crossReferences |-> <<>>,
                        warnings |-> <<NotFoundPrefix \o ResolvedSourceDir(sourceDir)>>,
                        errors |-> <<>>]
          /\ pc' = "done"
     ELSE /\ result' = result
          /\ pc' = "discover"
  /\ UNCHANGED <<sourceDir, discoveredFiles, dirExists, globThrows, fsFiles, mdcFiles, idx,
                 processedContent, warnings, errors, allCrossReferences,
                 globCalls, setCalls, transformLog, resolveLog, stats, linkVars, metaVars,
                 sidebarVars>>

\* a variant of DiscoverMdcFiles that lets the failure of the enumerator reach
\* the catch of loadContent
DiscoverMdcFilesFatal ==
  /\ pc = "discover"
  /\ mdcFiles' = IF globThrows THEN <<>> ELSE fsFiles
  /\ globCalls' = globCalls + 1
  /\ idx' = 1
  /\ pc' = IF globThrows THEN "done" ELSE "transform"
  /\ result' = IF globThrows
               THEN [content |-> <<>>, crossReferences |-> <<>>, warnings |-> <<>>,
                     errors |-> <<FatalPrefix>>]
               ELSE result
  /\ UNCHANGED <<sourceDir, discoveredFiles, dirExists, globThrows, fsFiles, processedContent,
                 warnings, errors, allCrossReferences, setCalls,
                 transformLog, resolveLog, stats, linkVars, metaVars,
                 sidebarVars>>

\* discoverMdcFiles: the enumerator returns the files, or throws and the
\* catch returns the empty list
DiscoverMdcFiles ==
  /\ pc = "discover"
  /\ mdcFiles' = IF globThrows THEN <<>> ELSE fsFiles
  /\ globCalls' = globCalls + 1
  /\ idx' = 1
  /\ pc' = "transform"
  /\ UNCHANGED <<sourceDir, discoveredFiles, dirExists, globThrows, fsFiles, processedContent,
                 warnings, errors, allCrossReferences, result, setCalls,
                 transformLog, resolveLog, stats, linkVars, metaVars,
                 sidebarVars>>

\* a variant of TransformFile in which a failing read is not caught: the
\* exception leaves loadContent
TransformFileThrows ==
  /\ pc = "transform"
  /\ idx <= Len(mdcFiles)
  /\ \E env \in FileEnvs :
       LET content == ProcessFile(mdcFiles[idx], env)
       IN /\ processedContent' = IF content # Null
                                 THEN Append(processedContent, content)
                                 ELSE processedContent
          /\ transformLog' = Append(transformLog,
                                    [file |-> mdcFiles[idx], survived |-> content # Null,
                                     env |-> env])
          /\ pc' = IF env.readThrows THEN "thrown" ELSE pc
  /\ idx' = idx + 1
  /\ UNCHANGED <<sourceDir, discoveredFiles, dirExists, globThrows, fsFiles, mdcFiles,
                 warnings, errors, allCrossReferences, result, globCalls, setCalls,
                 resolveLog, stats, linkVars, metaVars,
                 sidebarVars>>

\* one iteration of the first pass: processFile never throws, so the catch
\* of the loop, the only place that pushes to errors, is not taken
TransformFile ==
  /\ pc = "transform"
  /\ idx <= Len(mdcFiles)
  /\ \E env \in FileEnvs :
       LET content == ProcessFile(mdcFiles[idx], env)
       IN /\ processedContent' = IF content # Null
                                 THEN Append(processedContent, content)
                                 ELSE processedContent
          /\ transformLog' = Append(transformLog,
                                    [file |-> mdcFiles[idx], survived |-> content # Null,
                                     env |-> env])
  /\ idx' = idx + 1
  /\ UNCHANGED <<sourceDir, discoveredFiles, pc, dirExists, globThrows, fsFiles, mdcFiles,
                 warnings, errors, allCrossReferences, result, globCalls, setCalls,
                 resolveLog, stats, linkVars, metaVars,
                 sidebarVars>>

\* a variant of BuildIndex that does not wait for the end of the first pass
BuildIndexEarly ==
  /\ pc = "transform"
  /\ idx > 1
  /\ discoveredFiles' = SetDiscoveredFiles(processedContent)
  /\ setCalls' = setCalls + 1
  /\ idx' = 1
  /\ pc' = "resolve"
  /\ UNCHANGED <<sourceDir, dirExists, globThrows, fsFiles, mdcFiles, processedContent, warnings,
                 errors, allCrossReferences, result, globCalls, transformLog,
                 resolveLog, stats, linkVars, metaVars,
                 sidebarVars>>

\* linkResolver.setDiscoveredFiles(processedContent), after the first pass
BuildIndex ==
  /\ pc = "transform"
  /\ idx > Len(mdcFiles)
  /\ discoveredFiles' = SetDiscoveredFiles(processedContent)
  /\ setCalls' = setCalls + 1
  /\ idx' = 1
  /\ pc' = "resolve"
  /\ UNCHANGED <<sourceDir, dirExists, globThrows, fsFiles, mdcFiles, processedContent, warnings,
                 errors, allCrossReferences, result, globCalls, transformLog,
                 resolveLog, stats, linkVars, metaVars,
                 sidebarVars>>

\* a variant of ResolveDocument that removes a document whose body holds a
\* broken reference
ResolveDocumentDropBroken ==
  /\ pc = "resolve"
  /\ idx <= Len(processedContent)
  /\ LET content == processedContent[idx]
         linkResult == ResolveLinks(sourceDir, CrossReferenceBase, discoveredFiles,
                                    content.content)
         linkWarnings_ == GenerateWarnings(discoveredFiles, linkResult.crossReferences,
                                           content.filePath)
     IN /\ processedContent' =
             IF linkWarnings_ # <<>>
             THEN SubSeq(processedContent, 1, idx - 1)
                    \o SubSeq(processedContent, idx + 1, Len(processedContent))
             ELSE [processedContent EXCEPT ![idx].content = linkResult.content]
        /\ idx' = IF linkWarnings_ # <<>> THEN idx ELSE idx + 1
        /\ allCrossReferences' = allCrossReferences \o linkResult.crossReferences
        /\ warnings' = warnings \o linkWarnings_
        /\ resolveLog' = Append(resolveLog,
                                [file |-> content.filePath, index |-> discoveredFiles,
                                 linkResult |-> linkResult])
  /\ UNCHANGED <<sourceDir, discoveredFiles, pc, dirExists, globThrows, fsFiles, mdcFiles, errors,
                 result, globCalls, setCalls, transformLog, stats, linkVars, metaVars,
                 sidebarVars>>

\* one iteration of the second pass
ResolveDocument ==
  /\ pc = "resolve"
  /\ idx <= Len(processedContent)
  /\ LET content == processedContent[idx]
         linkResult == ResolveLinks(sourceDir, CrossReferenceBase, discoveredFiles,
                                    content.content)
         linkWarnings_ == GenerateWarnings(discoveredFiles, linkResult.crossReferences,
                                           content.filePath)
     IN /\ processedContent' =
             [processedContent EXCEPT ![idx].content = linkResult.content]
        /\ allCrossReferences' = allCrossReferences \o linkResult.crossReferences
        /\ warnings' = warnings \o linkWarnings_
        /\ resolveLog' = Append(resolveLog,
                                [file |-> content.filePath, index |-> discoveredFiles,
                                 linkResult |-> linkResult])
  /\ idx' = idx + 1
  /\ UNCHANGED <<sourceDir, discoveredFiles, pc, dirExists, globThrows, fsFiles, mdcFiles, errors,
                 result, globCalls, setCalls, transformLog, stats, linkVars, metaVars,
                 sidebarVars>>

\* getResolutionStats is called and logged; the result is returned
Aggregate ==
  /\ pc = "resolve"
  /\ idx > Len(processedContent)
  /\ result' = [content |-> processedContent, crossReferences |-> allCrossReferences,
                warnings |-> warnings, errors |-> errors]
  /\ stats' = GetResolutionStats(allCrossReferences)
  /\ pc' = "done"
  /\ UNCHANGED <<sourceDir, discoveredFiles, dirExists, globThrows, fsFiles, mdcFiles, idx,
                 processedContent, warnings, errors, allCrossReferences, globCalls,
                 setCalls, transformLog, resolveLog, linkVars, metaVars,
                 sidebarVars>>

Next ==
  \/ CheckSourceDir
  \/ DiscoverMdcFiles
  \/ TransformFile
  \/ BuildIndex
  \/ ResolveDocument
  \/ Aggregate

Spec == Init /\ [][Next]_vars

\* the phases of loadContent, in order
Phases == <<"start", "discover", "transform", "resolve", "done">>

\* some step of loadContent: in every phase but the last a step is possible
\* (the existence check, the enumeration, an iteration of either loop or the
\* statement after it), and every step moves pc or idx
Progress ==
  /\ pc \in {"start", "discover", "transform", "resolve"}
  /\ \E p \in Range(Phases), i \in 0..(MaxFiles + 1) :
       /\ <<p, i>> # <<pc, idx>>
       /\ pc' = p
       /\ idx' = i

\* loadContent is one asynchronous function: when every call it awaits
\* returns or throws, its next step is taken
SpecLive == Init /\ [][Next]_vars /\ WF_<<pc, idx>>(Progress)

(***************************************************************************)
(* LinkResolver on its own: construction, setDiscoveredFiles, resolveLinks,*)
(* generateWarnings                                                        *)
(***************************************************************************)
SourceDirs == {DefaultSourceDir, CustomSourceDir}

\* new LinkResolver(config), and the body that will be resolved
InitLink ==
  /\ sourceDir \in SourceDirs
  /\ discoveredFiles = <<>>
  /\ LoaderIdle
  /\ linkPc = "new"
  /\ linkSegs \in SegLists(MaxSegs)
  /\ linkBody = BodyOf(sourceDir, linkSegs)
  /\ linkOut = NoOutput
  /\ linkWarnings = <<>>
  /\ MetaIdle
  /\ SidebarIdle

LinkSetDiscoveredFiles ==
  /\ linkPc = "new"
  /\ \E fl \in FileLists(MaxFiles) :
       discoveredFiles' = SetDiscoveredFiles([k \in 1..Len(fl) |-> DocOf(fl[k])])
  /\ linkPc' = "ready"
  /\ UNCHANGED <<sourceDir, loaderVars, metaVars, sidebarVars, linkSegs, linkBody, linkOut, linkWarnings>>

LinkResolveLinks ==
  /\ linkPc = "ready"
  /\ linkOut' = ResolveLinks(sourceDir, CrossReferenceBase, discoveredFiles, linkBody)
  /\ linkPc' = "resolved"
  /\ UNCHANGED <<sourceDir, discoveredFiles, loaderVars, metaVars, sidebarVars, linkSegs, linkBody, linkWarnings>>

LinkGenerateWarnings ==
  /\ linkPc = "resolved"
  /\ linkWarnings' = GenerateWarnings(discoveredFiles, linkOut.crossReferences, LinkSource)
  /\ linkPc' = "warned"
  /\ UNCHANGED <<sourceDir, discoveredFiles, loaderVars, metaVars, sidebarVars, linkSegs, linkBody, linkOut>>

NextLink ==
  \/ LinkSetDiscoveredFiles
  \/ LinkResolveLinks
  \/ LinkGenerateWarnings

SpecLink == InitLink /\ [][NextLink]_vars

(***************************************************************************)
(* MetadataParser scenario: a file text is parsed, parsed with             *)
(* normalization, its metadata normalized once more and its title          *)
(* extracted; or a raw value is coerced by parseValue.                     *)
(*                                                                         *)
(* A file text is a frame (opening line, closing line, body) around a list *)
(* of metadata lines.                                                      *)
(***************************************************************************)
\* bounds of the scenario
MaxMetaLines == 2
MaxValueLen == 3

LineTitle == <<"t", "i", "t", "l", "e", ":", " ", "T", "1">>
LineTitleNumber == <<"t", "i", "t", "l", "e", ":", " ", "4", "0", "4">>
LineTitleEmpty == <<"t", "i", "t", "l", "e", ":">>
LineDescription ==
  <<"d", "e", "s", "c", "r", "i", "p", "t", "i", "o", "n", ":", " ", "D", "1">>
LineGlobs == <<"g", "l", "o", "b", "s", ":", " ", "*", ".", "t", "s">>
LineGlobsEmpty == <<"g", "l", "o", "b", "s", ":">>
LineGlobsBlank ==
  <<"g", "l", "o", "b", "s", ":", " ", "\"", " ", " ", "\"">>
LineGlobsNull == <<"g", "l", "o", "b", "s", ":", " ", "n", "u", "l", "l">>
LineGlobsList == <<"g", "l", "o", "b", "s", ":", " ", "a", ",", "b">>
LineAlways ==
  <<"a", "l", "w", "a", "y", "s", "A", "p", "p", "l", "y", ":", " ", "T", "R", "U",
    "E">>
LineAlwaysWord ==
  <<"a", "l", "w", "a", "y", "s", "A", "p", "p", "l", "y", ":", " ", "y", "e", "s">>
LineAlwaysQuoted ==
  <<"a", "l", "w", "a", "y", "s", "A", "p", "p", "l", "y", ":", " ", "\"", "T",
    "r", "u", "e", "\"">>
LineAlwaysNull == <<"a", "l", "w", "a", "y", "s", "A", "p", "p", "l", "y", ":", " ", "~">>
LineDraftNull == <<"d", "r", "a", "f", "t", ":", " ", "N", "u", "l", "l">>
LineNoColon == <<"n", "o", " ", "c", "o", "l", "o", "n">>
LineBlank == <<" ", " ">>
MetaLines ==
  {LineTitle, LineTitleNumber, LineTitleEmpty, LineDescription, LineGlobsBlank,
   LineGlobs, LineGlobsEmpty, LineGlobsNull, LineGlobsList,
   LineAlways, LineAlwaysWord, LineAlwaysQuoted, LineAlwaysNull,
   LineDraftNull, LineNoColon, LineBlank}

MetaLineLists(n) == UNION {[1..k -> MetaLines] : k \in 0..n}

LongDelimiter == <<"-", "-", "-", "-">>
IndentedDelimiter == <<" ", "-", "-", "-", " ">>
BodyPlain == <<"B", "o", "d", "y">>
BodyHeading == <<"#", " ", "H", "e", "a", "d", "\n", "B", "o", "d", "y">>
BodyPadded == <<" ", " ", "B", "o", "d", "y", " ", "\n">>
BodyLate ==
  <<"x", "\n", "#", " ", " ", "L", "a", "t", "e", " ", "\n", "-", "-", "-", "\n",
    "r", "e", "s", "t">>
BodyBareHash == <<"#", "\n", "N", "e", "x", "t">>
NoLine == <<>>

\* a frame: the lines before the metadata lines, the lines after them, the body
Frame(before, after, body) == [before |-> before, after |-> after, body |-> body]
Frames ==
  {Frame(<<Delimiter>>, <<Delimiter>>, BodyPlain),
   Frame(<<Delimiter>>, <<Delimiter>>, BodyHeading),
   Frame(<<Delimiter>>, <<Delimiter>>, BodyLate),
   Frame(<<Delimiter>>, <<Delimiter>>, BodyBareHash),
   Frame(<<NoLine, Delimiter>>, <<Delimiter>>, BodyPadded),
   Frame(<<Delimiter>>, <<IndentedDelimiter>>, BodyPlain),
   Frame(<<LongDelimiter>>, <<Delimiter>>, BodyPlain),
   Frame(<<Delimiter>>, <<>>, BodyPlain),
   Frame(<<>>, <<>>, BodyHeading)}

\* the file text of a frame around metadata lines
TextOf(frame, lines) ==
  JoinWith(frame.before \o lines \o frame.after \o <<frame.body>>, <<"\n">>)

Texts == {TextOf(f, ls) : f \in Frames, ls \in MetaLineLists(MaxMetaLines)}

\* raw values: every trimmed text over the alphabet up to the bound, and the
\* words the coercion knows
ValueAlphabet == {"0", "1", "-", ".", ",", "a", "\"", "'", " ", "\t"}
WordTrueUpper == <<"T", "R", "U", "E">>
WordTrueMixed == <<"T", "r", "u", "e">>
WordFalseMixed == <<"F", "a", "l", "s", "e">>
WordNullUpper == <<"N", "U", "L", "L">>
WordTrueQuoted == <<"\"", "t", "r", "u", "e", "\"">>
WordListQuoted == <<"\"", "a", ",", "b", "\"">>
WordList == <<"a", ",", "b", ",", "c">>
WordListTab == <<"a", ",", "\t", "b", ",", "c">>
WordFloat == <<"-", "1", "0", ".", "5", "0">>
WordPhrase == <<"a", ",", " ", "b", " ", "c">>
ValueWords ==
  {TrueWord, FalseWord, NullWord, Tilde, WordTrueUpper, WordTrueMixed, WordFalseMixed,
   WordNullUpper, WordTrueQuoted, WordListQuoted, WordList, WordListTab, WordFloat,
   WordPhrase}
RawValues ==
  {v \in UNION {[1..k -> ValueAlphabet] : k \in 0..MaxValueLen} : Trim(v) = v}
    \cup ValueWords

HyphenFile == <<"m", "y", "-", "r", "u", "l", "e", "_", "2", "x", ".", "m", "d", "c">>
TitlePaths == {FileB, HyphenFile}

\* new MetadataParser(), with a file text or a raw value at hand
InitMeta ==
  /\ sourceDir = DefaultSourceDir
  /\ discoveredFiles = <<>>
  /\ LoaderIdle
  /\ LinkIdle
  /\ SidebarIdle
  /\ \/ metaPc = "text" /\ metaText \in Texts /\ metaValue = <<>>
     \/ metaPc = "value" /\ metaText = <<>> /\ metaValue \in RawValues
  /\ metaParsed = NoParse
  /\ metaNormalized = NoParse
  /\ metaRenormalized = EmptyMap
  /\ metaTitle = <<>>
  /\ metaPath = <<>>
  /\ metaCoerced = NullV

MetaParseMetadata ==
  /\ metaPc = "text"
  /\ metaParsed' = ParseMetadata(metaText)
  /\ metaPc' = "parsed"
  /\ UNCHANGED <<sourceDir, discoveredFiles, loaderVars, linkVars, sidebarVars, metaText,
                 metaValue, metaNormalized, metaRenormalized, metaTitle, metaPath, metaCoerced>>

MetaParseWithNormalization ==
  /\ metaPc = "parsed"
  /\ metaNormalized' = ParseWithNormalization(metaText)
  /\ metaPc' = "normalized"
  /\ UNCHANGED <<sourceDir, discoveredFiles, loaderVars, linkVars, sidebarVars, metaText,
                 metaValue, metaParsed, metaRenormalized, metaTitle, metaPath, metaCoerced>>

\* the normalization step of parseWithNormalization applied to its own output
MetaNormalizeAgain ==
  /\ metaPc = "normalized"
  /\ metaRenormalized' = Normalize(metaNormalized.metadata)
  /\ metaPc' = "renormalized"
  /\ UNCHANGED <<sourceDir, discoveredFiles, loaderVars, linkVars, sidebarVars, metaText,
                 metaValue, metaParsed, metaNormalized, metaTitle, metaPath, metaCoerced>>

\* extractTitle(metadata, content, relativePath) as processFile calls it
MetaExtractTitle ==
  /\ metaPc = "renormalized"
  /\ \E relativePath \in TitlePaths :
       /\ metaPath' = relativePath
       /\ metaTitle' = ExtractTitle(metaNormalized.metadata, metaNormalized.content,
                                    relativePath)
  /\ metaPc' = "titled"
  /\ UNCHANGED <<sourceDir, discoveredFiles, loaderVars, linkVars, sidebarVars, metaText,
                 metaValue, metaParsed, metaNormalized, metaRenormalized, metaCoerced>>

MetaParseValue ==
  /\ metaPc = "value"
  /\ metaCoerced' = ParseValue(metaValue)
  /\ metaPc' = "coerced"
  /\ UNCHANGED <<sourceDir, discoveredFiles, loaderVars, linkVars, sidebarVars, metaText,
                 metaValue, metaParsed, metaNormalized, metaRenormalized, metaTitle, metaPath>>

NextMeta ==
  \/ MetaParseMetadata
  \/ MetaParseWithNormalization
  \/ MetaNormalizeAgain
  \/ MetaExtractTitle
  \/ MetaParseValue

SpecMeta == InitMeta /\ [][NextMeta]_vars

(***************************************************************************)
(* SidebarGenerator on its own: generateSidebar on the documents of a run  *)
(***************************************************************************)
MaxSidebarDocs == 2

DirFile == <<"m", "y", "-", "d", "i", "r", "/", "c", ".", "m", "d", "c">>
DeepFile == <<"m", "y", "-", "d", "i", "r", "/", "s", "u", "b", "_", "o", "n", "e", "/", "d", ".", "m", "d", "c">>
SidebarPaths == {FileA, FileC, DirFile, DeepFile}

TitleAlphaLower == <<"a", "l", "p", "h", "a">>
TitleAlphaUpper == <<"A", "l", "p", "h", "a">>
TitleZeta == <<"z", "e", "t", "a">>
TitleGamma == <<"G", "a", "m", "m", "a">>
TitleDelta == <<"D", "e", "l", "t", "a">>

\* the titles a document at the path is given
SidebarTitles(filePath) ==
  IF filePath = FileA THEN {TitleAlphaUpper, TitleZeta}
  ELSE IF filePath = FileC THEN {TitleAlphaLower}
  ELSE IF filePath = DirFile THEN {TitleGamma}
  ELSE {TitleDelta}

\* the position lines of a metadata block
LinePositionOne == <<"s", "i", "d", "e", "b", "a", "r", "_", "p", "o", "s", "i", "t", "i", "o", "n", ":", " ", "1">>
LinePositionTwo == <<"s", "i", "d", "e", "b", "a", "r", "_", "p", "o", "s", "i", "t", "i", "o", "n", ":", " ", "2">>
LinePositionZero == <<"s", "i", "d", "e", "b", "a", "r", "_", "p", "o", "s", "i", "t", "i", "o", "n", ":", " ", "0">>
LinePositionFloat == <<"s", "i", "d", "e", "b", "a", "r", "_", "p", "o", "s", "i", "t", "i", "o", "n", ":", " ", "1", ".", "5">>
LinePositionPrefix == <<"s", "i", "d", "e", "b", "a", "r", "_", "p", "o", "s", "i", "t", "i", "o", "n", ":", " ", "1", "2", "a", "b", "c">>
LinePositionWord == <<"s", "i", "d", "e", "b", "a", "r", "_", "p", "o", "s", "i", "t", "i", "o", "n", ":", " ", "a", "b", "c">>
LinePositionQuoted == <<"s", "i", "d", "e", "b", "a", "r", "_", "p", "o", "s", "i", "t", "i", "o", "n", ":", " ", "\"", "2", "\"">>
LinePositionTrue == <<"s", "i", "d", "e", "b", "a", "r", "_", "p", "o", "s", "i", "t", "i", "o", "n", ":", " ", "t", "r", "u", "e">>
LineCamelOne == <<"s", "i", "d", "e", "b", "a", "r", "P", "o", "s", "i", "t", "i", "o", "n", ":", " ", "1">>
LineCamelThree == <<"s", "i", "d", "e", "b", "a", "r", "P", "o", "s", "i", "t", "i", "o", "n", ":", " ", "3">>
LineCamelZero == <<"s", "i", "d", "e", "b", "a", "r", "P", "o", "s", "i", "t", "i", "o", "n", ":", " ", "0">>
PositionBlocks ==
  {<<>>, <<LinePositionOne>>, <<LinePositionTwo>>, <<LinePositionZero>>,
   <<LinePositionFloat>>, <<LinePositionPrefix>>, <<LinePositionWord>>,
   <<LinePositionQuoted>>, <<LinePositionTrue>>, <<LineCamelOne>>, <<LineCamelZero>>,
   <<LinePositionZero, LineCamelThree>>}

\* the document processFile makes of a file with the metadata lines; its
\* body and the sourceFile and lastModified entries of its metadata play no
\* part in the sidebar
SidebarDoc(filePath, title, lines) ==
  [filePath |-> filePath, title |-> title, permalink |-> GeneratePermalink(filePath),
   metadata |-> Normalize(ParseMetadataLines(lines, EmptyMap))]

SidebarDocsAt(filePath) ==
  {SidebarDoc(filePath, title, lines) : title \in SidebarTitles(filePath), lines \in PositionBlocks}

\* the lists of at most n documents, of different files
SidebarDocLists(n) ==
  {docs \in UNION {[1..k -> UNION {SidebarDocsAt(p) : p \in SidebarPaths}] : k \in 0..n} :
     \A i, j \in 1..Len(docs) : i # j => docs[i].filePath # docs[j].filePath}

\* new SidebarGenerator(), with the documents loadContent returned
InitSidebar ==
  /\ sourceDir = DefaultSourceDir
  /\ discoveredFiles = <<>>
  /\ LoaderIdle
  /\ LinkIdle
  /\ MetaIdle
  /\ sidebarPc = "docs"
  /\ sidebarDocs \in SidebarDocLists(MaxSidebarDocs)
  /\ sidebarItems = <<>>

SidebarGenerate ==
  /\ sidebarPc = "docs"
  /\ sidebarItems' = GenerateSidebar(sidebarDocs)
  /\ sidebarPc' = "generated"
  /\ UNCHANGED <<sourceDir, discoveredFiles, loaderVars, linkVars, metaVars, sidebarDocs>>

NextSidebar == SidebarGenerate

SpecSidebar == InitSidebar /\ [][NextSidebar]_vars

(***************************************************************************)
(* Broken-reference messages: an index of many documents, a body with      *)
(* references, resolveLinks and generateWarnings                           *)
(***************************************************************************)
MaxKnownFiles == 8

\* the files rule0.mdc .. rule9.mdc, as the test of the overflow names them
RulePool ==
  [k \in 1..10 |-> <<"r", "u", "l", "e">> \o Digits(k - 1) \o MdcExt]

\* the enumeration orders of the first n files: ascending, descending, and
\* starting in the middle
Ascending(n) == [k \in 1..n |-> RulePool[k]]
Descending(n) == [k \in 1..n |-> RulePool[n + 1 - k]]
Rotated(n) == [k \in 1..n |-> RulePool[((k + (n \div 2) - 1) % n) + 1]]
KnownLists(n) ==
  UNION {{Ascending(k), Descending(k), Rotated(k)} :
           k \in 0..(IF n < Len(RulePool) THEN n ELSE Len(RulePool))}

\* references: to a name every rule contains, to a name no rule resembles,
\* to a name that contains rule3 in another case, to rule2 in a directory,
\* and to rule0 itself
RefRule == <<".", "/", "r", "u", "l", "e", ".", "m", "d", "c">>
RefNone == <<".", "/", "z", "z", ".", "m", "d", "c">>
RefCase == <<".", "/", "R", "U", "L", "E", "3", "x", ".", "m", "d", "c">>
RefNested == <<".", "/", "m", "/", "r", "u", "l", "e", "2", ".", "m", "d", "c">>
RefRuleZero == <<".", "/", "r", "u", "l", "e", "0", ".", "m", "d", "c">>
WarnRefs == {RefRule, RefNone, RefCase, RefNested, RefRuleZero}
WarnBodies ==
  WarnRefs \cup {a \o <<" ">> \o b : a \in WarnRefs, b \in WarnRefs}

\* new LinkResolver(config) of the default configuration, and a body
InitWarn ==
  /\ sourceDir = DefaultSourceDir
  /\ discoveredFiles = <<>>
  /\ LoaderIdle
  /\ linkPc = "warn-new"
  /\ linkSegs = <<>>
  /\ linkBody \in WarnBodies
  /\ linkOut = NoOutput
  /\ linkWarnings = <<>>
  /\ MetaIdle
  /\ SidebarIdle

WarnSetDiscoveredFiles ==
  /\ linkPc = "warn-new"
  /\ \E fl \in KnownLists(MaxKnownFiles) :
       discoveredFiles' = SetDiscoveredFiles([k \in 1..Len(fl) |-> DocOf(fl[k])])
  /\ linkPc' = "warn-ready"
  /\ UNCHANGED <<sourceDir, loaderVars, metaVars, sidebarVars, linkSegs, linkBody, linkOut,
                 linkWarnings>>

WarnResolveLinks ==
  /\ linkPc = "warn-ready"
  /\ linkOut' = ResolveLinks(sourceDir, CrossReferenceBase, discoveredFiles, linkBody)
  /\ linkPc' = "warn-resolved"
  /\ UNCHANGED <<sourceDir, discoveredFiles, loaderVars, metaVars, sidebarVars, linkSegs,
                 linkBody, linkWarnings>>

WarnGenerateWarnings ==
  /\ linkPc = "warn-resolved"
  /\ linkWarnings' = GenerateWarnings(discoveredFiles, linkOut.crossReferences, LinkSource)
  /\ linkPc' = "warn-warned"
  /\ UNCHANGED <<sourceDir, discoveredFiles, loaderVars, metaVars, sidebarVars, linkSegs,
                 linkBody, linkOut>>

NextWarn ==
  \/ WarnSetDiscoveredFiles
  \/ WarnResolveLinks
  \/ WarnGenerateWarnings

SpecWarn == InitWarn /\ [][NextWarn]_vars

(***************************************************************************)
(* Properties of loadContent (specification Spec)                          *)
(***************************************************************************)
Survivors == {transformLog[k].file : k \in {j \in 1..Len(transformLog) : transformLog[j].survived}}
Failed == {transformLog[k].file : k \in {j \in 1..Len(transformLog) : ~transformLog[j].survived}}

\* the index is never built before the transform of every enumerated file has
\* finished, never rebuilt, built before any resolveLinks call, and every
\* resolveLinks call sees every surviving document in it
IndexBarrier ==
  /\ setCalls <= 1
  /\ setCalls = 1 => Len(transformLog) = Len(mdcFiles)
  /\ resolveLog # <<>> => setCalls = 1
  /\ \A k \in 1..Len(resolveLog) : Survivors \subseteq Range(resolveLog[k].index)

\* C1 as stated: in every run of loadContent the index is built exactly once,
\* only after the transform of every enumerated file has finished and before
\* the first resolveLinks call, and no resolveLinks call runs against an index
\* that misses a surviving document
C1_IndexBuiltOnceInEveryRun ==
  /\ IndexBarrier
  /\ pc = "done" => setCalls = 1

\* C1 amended: the same, for every run that does not return early because the
\* source directory is missing (such a run never builds the index)
C1_IndexBuiltOnceUnlessSourceMissing ==
  /\ IndexBarrier
  /\ (pc = "done" /\ dirExists) => setCalls = 1
  /\ (pc = "done" /\ ~dirExists) => setCalls = 0

C1_Witness ==
  /\ pc = "done"
  /\ setCalls = 1
  /\ Len(resolveLog) = 2
  /\ Len(mdcFiles) = MaxFiles

\* the references of the default configuration to the file f
RefersTo(original, f) ==
  original \in {DotSlash \o f, LegacyRules \o f, DotSlash \o LegacyRules \o f,
                MdcScheme \o LegacyRules \o f}

\* C2: the index used for validation holds exactly the documents that
\* survived the transform phase; a reference in a document to the path of a
\* file is valid if and only if that file survived, whatever the enumeration
\* order, and invalid when its transform failed or it was never enumerated
C2_IndexIsExactlySurvivors ==
  /\ pc \in {"resolve", "done"} /\ dirExists => Range(discoveredFiles) = Survivors
  /\ \A k \in 1..Len(resolveLog) :
       \A r \in 1..Len(resolveLog[k].linkResult.crossReferences) :
         \A f \in FilePaths :
           RefersTo(resolveLog[k].linkResult.crossReferences[r].original, f)
             => (resolveLog[k].linkResult.crossReferences[r].isValid <=> f \in Survivors)

\* the first document refers validly to the document enumerated after it, and
\* invalidly to a file that failed or was never enumerated
C2_Witness ==
  /\ pc = "done"
  /\ Len(mdcFiles) >= 2
  /\ Len(resolveLog) >= 1
  /\ resolveLog[1].file = mdcFiles[1]
  /\ \E r \in 1..Len(resolveLog[1].linkResult.crossReferences) :
       /\ resolveLog[1].linkResult.crossReferences[r].isValid
       /\ RefersTo(resolveLog[1].linkResult.crossReferences[r].original, mdcFiles[2])
  /\ \E r \in 1..Len(resolveLog[1].linkResult.crossReferences) :
       /\ ~resolveLog[1].linkResult.crossReferences[r].isValid
       /\ \E f \in FilePaths \ Survivors :
            RefersTo(resolveLog[1].linkResult.crossReferences[r].original, f)

\* C9 as stated: a file whose transform fails has one error string recorded
\* in the result's errors and is omitted from the result's content, while
\* every other enumerated document is still processed and output
C9_FailureRecordedPerDocument ==
  (pc = "done" /\ dirExists) =>
    /\ Len(result.errors) = Cardinality(Failed)
    /\ {result.content[k].filePath : k \in 1..Len(result.content)} = Range(mdcFiles) \ Failed

\* C10: when the source directory does not exist, loadContent returns at once
\* with empty content, empty crossReferences, exactly one warning that names
\* the missing directory and no errors, and the enumerator is never called
C10_SourceMissing ==
  ~dirExists =>
    /\ globCalls = 0
    /\ setCalls = 0
    /\ transformLog = <<>>
    /\ resolveLog = <<>>
    /\ pc \in {"start", "done"}
    /\ pc = "done" =>
         /\ result.content = <<>>
         /\ result.crossReferences = <<>>
         /\ result.errors = <<>>
         /\ Len(result.warnings) = 1
         /\ Includes(result.warnings[1], ResolvedSourceDir(sourceDir))

C10_Witness ==
  /\ pc = "done"
  /\ ~dirExists
  /\ fsFiles # <<>>
  /\ Len(result.warnings) = 1

\* C11 as stated: a failure raised outside the per-document boundary, here by
\* the file enumerator in the discovery phase, is fatal: loadContent returns
\* empty content and crossReferences and records the failure in errors
C11_PhaseFailureIsFatal ==
  (pc = "done" /\ dirExists /\ globThrows) =>
    /\ result.content = <<>>
    /\ result.crossReferences = <<>>
    /\ Len(result.errors) = 1

\* the entries of the transform history whose renderer threw
RenderFailed == {k \in 1..Len(transformLog) :
                   ~transformLog[k].env.readThrows /\ transformLog[k].env.render.throws}
DocsOf(content) == {content[k].filePath : k \in 1..Len(content)}

\* C12: when the renderer fails for a document, the body processFile produces
\* is '<pre>' + body + '</pre>', the document stays in the result's content,
\* and no error is recorded for it
C12_RendererFailureFallback ==
  \A k \in RenderFailed :
    /\ transformLog[k].survived
    /\ \A e \in Range(errors) \cup Range(result.errors) :
         ~Includes(e, transformLog[k].file)
    /\ pc = "transform" =>
         \E d \in 1..Len(processedContent) :
           /\ processedContent[d].filePath = transformLog[k].file
           /\ processedContent[d].content =
                PreOpen \o transformLog[k].env.text \o PreClose
    /\ pc = "done" => transformLog[k].file \in DocsOf(result.content)

C12_Witness ==
  /\ pc = "done"
  /\ RenderFailed # {}
  /\ \E k \in 1..Len(transformLog) : transformLog[k].env.readThrows
  /\ \A k \in RenderFailed : transformLog[k].file \in DocsOf(result.content)

(***************************************************************************)
(* Properties of the MetadataParser and of extractTitle (SpecMeta)         *)
(***************************************************************************)
MetaParsedDone == metaPc \in {"parsed", "normalized", "renormalized", "titled"}
MetaNormalizedDone == metaPc \in {"normalized", "renormalized", "titled"}

\* C13 as stated: when the metadata block has a title entry, the title of the
\* document is that entry's value verbatim, whatever the description, the
\* headings and the file name are
C13_ExplicitTitleWins ==
  (metaPc = "titled" /\ Has(metaParsed.metadata, TitleKey)) =>
    /\ metaParsed.metadata[TitleKey].type = "string"
    /\ metaTitle = metaParsed.metadata[TitleKey].text

\* C14 as stated: the normalization step applied to a metadata map it has
\* produced returns that map unchanged
C14_NormalizationIdempotent ==
  metaPc \in {"renormalized", "titled"} => metaRenormalized = metaNormalized.metadata

\* the result parseMetadata is to return for the trimmed text t with lines
\* ls, when the block is opened (opened) and closed by the lines closing
ExpectedParse(t, ls, opened, closing) ==
  IF ~opened \/ closing = {}
  THEN [metadata |-> EmptyMap, content |-> t]
  ELSE [metadata |-> ParseMetadataLines(SubSeq(ls, 2, SetMin(closing) - 1), EmptyMap),
        content |-> Trim(JoinWith(SubSeq(ls, SetMin(closing) + 1, Len(ls)), <<"\n">>))]

IntegerShape(v) == Unsigned(v) # <<>> /\ \A k \in 1..Len(Unsigned(v)) : Unsigned(v)[k] \in DigitChars

\* the value has the shape "optional '-', digits, optional '.', digits", the
\* digits before the point possibly none
FloatShape(v) ==
  /\ Unsigned(v) # <<>>
  /\ Unsigned(v)[Len(Unsigned(v))] \in DigitChars
  /\ \A k \in 1..Len(Unsigned(v)) : Unsigned(v)[k] \in DigitChars \cup {"."}
  /\ Cardinality({k \in 1..Len(Unsigned(v)) : Unsigned(v)[k] = "."}) <= 1

\* the digits of the value, its sign and its point left out
DigitsOnly(v) == SelectSeq(v, LAMBDA c : c \in DigitChars)
FractionLen(v) == Cardinality({k \in 1..Len(v) : \E p \in 1..(k - 1) : v[p] = "."})

\* r is the number the decimal text v denotes
IsNumberOf(r, v) ==
  /\ r.type = "number"
  /\ r.scale <= FractionLen(v)
  /\ r.num * Pow10(FractionLen(v) - r.scale) = Sign(v) * DigitsValue(DigitsOnly(v))
  /\ r.scale = 0 \/ r.num % 10 # 0

\* the k-th of the pieces the commas of v separate
Commas(v) == {k \in 1..Len(v) : v[k] = ","}
CommaBefore(v, k) == SetMax({0} \cup {c \in Commas(v) : Cardinality({b \in Commas(v) : b <= c}) < k})
CommaAfter(v, k) == SetMin({Len(v) + 1} \cup {c \in Commas(v) : c > CommaBefore(v, k)})
Piece(v, k) == SubSeq(v, CommaBefore(v, k) + 1, CommaAfter(v, k) - 1)

QuoteWrapped(v) == v # <<>> /\ v[1] \in {"\"", "'"} /\ v[Len(v)] = v[1]

\* r is what the ordered rules give for the raw value v, the sequence rule
\* being barred by the characters of blockers
CoercedInOrder(v, r, blockers) ==
  IF v = <<>> THEN r = StrV(<<>>)
  ELSE IF QuoteWrapped(v) THEN r = StrV(SubSeq(v, 2, Len(v) - 1))
  ELSE IF ToLowerCase(v) \in {TrueWord, FalseWord} THEN r = BoolV(ToLowerCase(v) = TrueWord)
  ELSE IF ToLowerCase(v) \in {NullWord, Tilde} THEN r = NullV
  ELSE IF IntegerShape(v) THEN IsNumberOf(r, v) /\ r.scale = 0
  ELSE IF FloatShape(v) THEN IsNumberOf(r, v)
  ELSE IF (\E k \in 1..Len(v) : v[k] = ",") /\ (\A k \in 1..Len(v) : v[k] \notin blockers)
  THEN /\ r.type = "array"
       /\ Len(r.items) = Cardinality(Commas(v)) + 1
       /\ \A k \in 1..Len(r.items) : r.items[k] = Trim(Piece(v, k))
  ELSE r = StrV(v)

\* C16 as stated: a raw value is coerced by the first rule that applies, in
\* the order quotes, boolean, null, integer, float, sequence (a comma and no
\* whitespace), string; the empty value gives the empty string
C16_CoercionOrder ==
  metaPc = "coerced" => CoercedInOrder(metaValue, metaCoerced, Whitespace)

\* C16 amended: the same ordered rules, where the sequence rule asks for a
\* comma and no space character (a tab or another whitespace character does
\* not bar it) and trims every piece, the quote rule applies to every value that starts and ends
\* with the same quote character, and the float rule allows no digit before
\* the point
C16_CoercionOrderSpaceOnly ==
  metaPc = "coerced" => CoercedInOrder(metaValue, metaCoerced, {" "})

\* a list with a tab after a comma becomes a sequence of three trimmed pieces
C16_Witness ==
  /\ metaPc = "coerced"
  /\ metaValue = WordListTab
  /\ metaCoerced = ArrV(<<<<"a">>, <<"b">>, <<"c">>>>)

\* the entries of the normalized map n are those the normalization rules
\* give for the parsed map p, a string globs being emptied when blank(text)
NormalizedFrom(p, n, blank(_)) ==
  /\ Has(p, GlobsKey) /\ p[GlobsKey].type = "string" =>
       /\ Has(n, GlobsKey)
       /\ n[GlobsKey] = IF blank(p[GlobsKey].text) THEN ArrV(<<>>)
                        ELSE ArrV(<<p[GlobsKey].text>>)
  /\ ~Has(p, GlobsKey) => Has(n, GlobsKey) /\ n[GlobsKey] = ArrV(<<>>)
  /\ Has(p, AlwaysApplyKey) /\ p[AlwaysApplyKey].type = "string" =>
       /\ Has(n, AlwaysApplyKey)
       /\ n[AlwaysApplyKey] = BoolV(ToLowerCase(p[AlwaysApplyKey].text) = TrueWord)
  /\ ~Has(p, AlwaysApplyKey) => Has(n, AlwaysApplyKey) /\ n[AlwaysApplyKey] = BoolV(FALSE)
  /\ \A k \in DOMAIN p : p[k].type = "null" => ~Has(n, k)
  /\ \A k \in DOMAIN p \ {GlobsKey, AlwaysApplyKey} :
       p[k] = StrV(<<>>) => Has(n, k) /\ n[k] = StrV(<<>>)

IsEmptyText(text) == text = <<>>
IsBlankText(text) == \A k \in 1..Len(text) : text[k] \in Whitespace

\* C17 as stated: in the result of parseWithNormalization a string globs is
\* a one-element sequence, or the empty sequence when the string is empty; an
\* absent globs is the empty sequence; a string alwaysApply is the boolean
\* "equals 'true' ignoring case", an absent one false; null entries are
\* removed, empty-string entries kept; the body is parseMetadata's
C17_NormalizedResult ==
  MetaNormalizedDone =>
    /\ NormalizedFrom(metaParsed.metadata, metaNormalized.metadata, IsEmptyText)
    /\ metaNormalized.content = metaParsed.content

\* C17 amended: the same, the empty sequence being the result for a string
\* globs that is empty or holds only whitespace
C17_NormalizedResultBlankGlobs ==
  MetaNormalizedDone =>
    /\ NormalizedFrom(metaParsed.metadata, metaNormalized.metadata, IsBlankText)
    /\ metaNormalized.content = metaParsed.content

\* a null entry removed next to an empty title that is kept, and a string
\* alwaysApply made a boolean
C17_Witness ==
  /\ MetaNormalizedDone
  /\ Has(metaParsed.metadata, TitleKey) /\ metaParsed.metadata[TitleKey] = StrV(<<>>)
  /\ Has(metaNormalized.metadata, TitleKey)
  /\ \E k \in DOMAIN metaParsed.metadata :
       metaParsed.metadata[k].type = "null" /\ ~Has(metaNormalized.metadata, k)

\* the lines of the body of the form '# text': a '#', whitespace, and text
\* on the same line
HeadingLines(content) ==
  {k \in 1..Len(Split(content, "\n")) :
     /\ Len(Split(content, "\n")[k]) >= 3
     /\ Split(content, "\n")[k][1] = "#"
     /\ Split(content, "\n")[k][2] \in Whitespace
     /\ Trim(Tail(Split(content, "\n")[k])) # <<>>}

IsAlphanumeric(c) == IsWordChar(c) /\ c # "_"

\* the base name of the path without extension, '-' and '_' made spaces,
\* the first letter of every word in upper case
StatedFileTitle(relativePath) ==
  [k \in 1..Len(Basename(relativePath)) |->
     IF Basename(relativePath)[k] \in {"-", "_"} THEN " "
     ELSE IF k = 1 \/ ~IsAlphanumeric(Basename(relativePath)[k - 1])
     THEN ToUpperChar(Basename(relativePath)[k])
     ELSE Basename(relativePath)[k]]

StatedTitle(metadata, content, relativePath) ==
  IF Has(metadata, TitleKey) /\ metadata[TitleKey].type = "string"
     /\ metadata[TitleKey].text # <<>>
  THEN metadata[TitleKey].text
  ELSE IF Has(metadata, DescriptionKey) /\ metadata[DescriptionKey].type = "string"
          /\ metadata[DescriptionKey].text # <<>>
  THEN metadata[DescriptionKey].text
  ELSE IF HeadingLines(content) # {}
  THEN Trim(Tail(Split(content, "\n")[SetMin(HeadingLines(content))]))
  ELSE StatedFileTitle(relativePath)

\* C23 as stated: the title is metadata.title when that is a non-empty
\* string, else metadata.description when that is a non-empty string, else
\* the text of the first line of the body of the form '# text', else the
\* base name of the file without extension, '-' and '_' replaced by spaces
\* and the first letter of each word capitalized
C23_TitlePriority ==
  metaPc = "titled" =>
    metaTitle = StatedTitle(metaNormalized.metadata, metaNormalized.content, metaPath)

\* C24: when the file enumerator fails, the discovery step swallows the
\* failure: loadContent goes on with no file, builds the empty index and
\* returns empty content, crossReferences, warnings and errors
C24_EnumeratorFailureSwallowed ==
  (dirExists /\ globThrows) =>
    /\ pc \in {"transform", "resolve", "done"} => mdcFiles = <<>>
    /\ pc = "done" =>
         /\ result = [content |-> <<>>, crossReferences |-> <<>>, warnings |-> <<>>,
                      errors |-> <<>>]
         /\ globCalls = 1
         /\ setCalls = 1
         /\ discoveredFiles = <<>>

\* the enumerator failed over a directory that holds files, and the run
\* returned the empty result
C24_Witness ==
  /\ pc = "done"
  /\ dirExists
  /\ globThrows
  /\ fsFiles # <<>>
  /\ result.content = <<>>
  /\ result.errors = <<>>

(***************************************************************************)
(* Properties of getResolutionStats (specification Spec)                   *)
(***************************************************************************)
\* the rate, a decimal number of at most two decimals, in hundredths
Hundredths(rate) == rate.num * Pow10(2 - rate.scale)

StatsComputed == pc = "done" /\ dirExists

\* C20: getResolutionStats(refs) gives total = number of refs, valid = number
\* of valid refs, broken = total - valid, and successRate = valid / total *
\* 100 rounded to two decimals, or exactly 100 when there is no ref; the rate
\* lies between 0 and 100, and 2 valid of 3 give 66.67
C20_ResolutionStats ==
  StatsComputed =>
    /\ stats.total = Len(result.crossReferences)
    /\ stats.valid =
         Cardinality({k \in 1..Len(result.crossReferences) : result.crossReferences[k].isValid})
    /\ stats.broken = stats.total - stats.valid
    /\ stats.total = stats.valid + stats.broken
    /\ stats.successRate.type = "number"
    /\ stats.successRate.scale <= 2
    /\ stats.total = 0 => stats.successRate = NumV(100, 0)
    /\ stats.total > 0 =>
         /\ 2 * (Hundredths(stats.successRate) * stats.total - 10000 * stats.valid) <= stats.total
         /\ 2 * (10000 * stats.valid - Hundredths(stats.successRate) * stats.total) <= stats.total
    /\ Hundredths(stats.successRate) >= 0
    /\ Hundredths(stats.successRate) <= 10000
    /\ stats.total = 3 /\ stats.valid = 2 => stats.successRate = NumV(6667, 2)

\* a run whose documents hold three references, two of them valid
C20_Witness ==
  /\ StatsComputed
  /\ Len(result.crossReferences) = 3
  /\ stats.valid = 2
  /\ stats.successRate = NumV(6667, 2)

(***************************************************************************)
(* Properties of the SidebarGenerator (specification SpecSidebar)          *)
(***************************************************************************)
\* every sibling list of the sidebar: the list itself and, at every depth,
\* the lists of its categories
RECURSIVE SiblingLists(_)
SiblingLists(items) ==
  {items} \cup UNION {SiblingLists(items[k].items) :
                        k \in {i \in 1..Len(items) : items[i].type = "category"}}

\* the place, in the documents given, of the document a Link item points to
DocIndex(item) == CHOOSE d \in 1..Len(sidebarDocs) : sidebarDocs[d].permalink = item.href

PositionedFirst(list) ==
  \A i, j \in 1..Len(list) : i < j /\ list[j].position.has => list[i].position.has

UnpositionedByLabel(list) ==
  \A i, j \in 1..Len(list) :
    i < j /\ ~list[i].position.has /\ ~list[j].position.has =>
      LocaleCompare(list[i].label, list[j].label) <= 0

\* C18 as stated: in every sibling list the positioned items come before
\* the unpositioned ones, the positioned items are in strictly ascending
\* order of position, and the unpositioned items in alphabetical order of label
C18_SiblingOrderStrict ==
  sidebarPc = "generated" =>
    \A list \in SiblingLists(sidebarItems) :
      /\ PositionedFirst(list)
      /\ \A i, j \in 1..Len(list) :
           i < j /\ list[i].position.has /\ list[j].position.has =>
             PositionDifference(list[i].position, list[j].position) < 0
      /\ UnpositionedByLabel(list)

\* C18 amended: in every sibling list the positioned items come before the
\* unpositioned ones, the positioned items are in ascending order of
\* position, items of equal position in the order in which their documents
\* were given, and the unpositioned items in alphabetical order of label
C18_SiblingOrder ==
  sidebarPc = "generated" =>
    \A list \in SiblingLists(sidebarItems) :
      /\ PositionedFirst(list)
      /\ \A i, j \in 1..Len(list) :
           i < j /\ list[i].position.has /\ list[j].position.has =>
             \/ PositionDifference(list[i].position, list[j].position) < 0
             \/ /\ PositionDifference(list[i].position, list[j].position) = 0
                /\ DocIndex(list[i]) < DocIndex(list[j])
      /\ UnpositionedByLabel(list)

\* a sibling list whose two documents were given in the other order than
\* their positions
C18_Witness ==
  /\ sidebarPc = "generated"
  /\ \E list \in SiblingLists(sidebarItems) :
       /\ Len(list) = 2
       /\ list[1].position.has /\ list[2].position.has
       /\ PositionDifference(list[1].position, list[2].position) < 0
       /\ DocIndex(list[1]) > DocIndex(list[2])

\* every Link item of the sidebar, at every depth
RECURSIVE LinkItems(_)
LinkItems(items) ==
  {items[k] : k \in {i \in 1..Len(items) : items[i].type = "link"}}
    \cup UNION {LinkItems(items[k].items) :
                  k \in {i \in 1..Len(items) : items[i].type = "category"}}

PositionKeys == {SidebarPositionKey, SidebarPositionCamelKey}

\* the position the claim gives for the value of a position field: a
\* number as it is, a numeric string parsed as an integer, none otherwise
StatedPosition(v) ==
  IF v.type = "number" THEN PositionOf(v)
  ELSE IF v.type = "string" /\ (IsIntegerText(v.text) \/ IsFloatText(v.text))
  THEN PositionOf(NumV(Sign(v.text) * DigitsValue(LeadingDigits(Unsigned(v.text))), 0))
  ELSE NoPosition

\* C19 as stated: the position of a Link item is that of a position field
\* (sidebarPosition or sidebar_position) of its document: a numeric value as
\* it is, a numeric string parsed as an integer, and no position for another
\* value or without such a field
C19_PositionFromMetadata ==
  sidebarPc = "generated" =>
    \A item \in LinkItems(sidebarItems) :
      IF \E key \in PositionKeys : Has(sidebarDocs[DocIndex(item)].metadata, key)
      THEN \E key \in PositionKeys :
             /\ Has(sidebarDocs[DocIndex(item)].metadata, key)
             /\ item.position = StatedPosition(sidebarDocs[DocIndex(item)].metadata[key])
      ELSE item.position = NoPosition

\* the Links of a sidebar, each with the chain of the labels of the
\* Categories it sits in, and their number
RECURSIVE LinkPlaces(_, _)
LinkPlaces(items, chain) ==
  {[chain |-> chain, label |-> items[k].label, href |-> items[k].href] :
     k \in {i \in 1..Len(items) : items[i].type = "link"}}
    \cup UNION {LinkPlaces(items[k].items, Append(chain, items[k].label)) :
                  k \in {i \in 1..Len(items) : items[i].type = "category"}}

RECURSIVE CountItems(_, _)
CountItems(items, type) ==
  IF items = <<>> THEN 0
  ELSE (IF Head(items).type = type THEN 1 ELSE 0)
       + CountItems(Head(items).items, type) + CountItems(Tail(items), type)

\* the chains of labels of the Categories of a sidebar
RECURSIVE CategoryChains(_, _)
CategoryChains(items, chain) ==
  UNION {{Append(chain, items[k].label)}
           \cup CategoryChains(items[k].items, Append(chain, items[k].label)) :
           k \in {i \in 1..Len(items) : items[i].type = "category"}}

\* the directory segments of a relative path, and the labels of the first n
DirectorySegments(filePath) ==
  SubSeq(Split(filePath, "/"), 1, Len(Split(filePath, "/")) - 1)
LabelChain(filePath, n) == [k \in 1..n |-> FormatDirectoryLabel(DirectorySegments(filePath)[k])]

\* the distinct directory paths of the documents
DirectoryPaths ==
  UNION {{SubSeq(DirectorySegments(sidebarDocs[d].filePath), 1, n) :
            n \in 1..Len(DirectorySegments(sidebarDocs[d].filePath))} :
           d \in 1..Len(sidebarDocs)}

\* C25: the sidebar holds exactly one Link per document (label = title,
\* href = permalink) and no other Link, each inside the chain of Categories
\* of the directory segments of its path, exactly one Category per distinct
\* directory path, and nothing for no document
C25_EveryDocumentPlacedOnce ==
  sidebarPc = "generated" =>
    /\ CountItems(sidebarItems, "link") = Len(sidebarDocs)
    /\ LinkPlaces(sidebarItems, <<>>)
         = {[chain |-> LabelChain(sidebarDocs[d].filePath,
                                  Len(DirectorySegments(sidebarDocs[d].filePath))),
             label |-> sidebarDocs[d].title, href |-> sidebarDocs[d].permalink] :
              d \in 1..Len(sidebarDocs)}
    /\ CountItems(sidebarItems, "category") = Cardinality(DirectoryPaths)
    /\ CategoryChains(sidebarItems, <<>>)
         = UNION {{LabelChain(sidebarDocs[d].filePath, n) :
                     n \in 1..Len(DirectorySegments(sidebarDocs[d].filePath))} :
                    d \in 1..Len(sidebarDocs)}
    /\ sidebarDocs = <<>> => sidebarItems = <<>>

\* two documents of one directory, the deeper one given first: one Category
\* for the directory, holding a Link and the Category of the subdirectory
C25_Witness ==
  /\ sidebarPc = "generated"
  /\ Len(sidebarDocs) = 2
  /\ sidebarDocs[1].filePath = DeepFile
  /\ sidebarDocs[2].filePath = DirFile
  /\ Len(sidebarItems) = 1
  /\ sidebarItems[1].type = "category"
  /\ CountItems(sidebarItems, "category") = 2
  /\ CountItems(sidebarItems, "link") = 2

\* C26: a body without any recognized reference (hyperlinks to other
\* targets, '.mdc', 'file.mdc', './.mdc', whitespace, the empty body) is
\* returned unchanged by resolveLinks, with no cross-reference
C26_NoReferenceUnchanged ==
  (linkPc \in {"resolved", "warned"} /\ RefSegs(linkSegs) = <<>>) =>
    /\ linkOut.content = linkBody
    /\ linkOut.crossReferences = <<>>

\* './.mdc' and a hyperlink to a text file, resolved against a non-empty index
C26_Witness ==
  /\ linkPc = "resolved"
  /\ linkSegs = <<TextSeg(DotSlashExt), TextSeg(OtherAnchor)>>
  /\ discoveredFiles # <<>>
  /\ linkOut.content = linkBody
  /\ linkOut.crossReferences = <<>>

\* a document without its body
Unresolved(doc) == [f \in DOMAIN doc \ {"content"} |-> doc[f]]

\* C27: once the index is built its keys stay as they are until the run
\* returns; a step of the resolution phase adds or removes no document and
\* leaves id, relative path, title, metadata, permalink and table of
\* contents of every document as they were; it rewrites the body of one
\* document, the next one that has not been resolved, so that at the return
\* every document has been resolved exactly once
C27_ResolutionFrame ==
  [][pc = "resolve" =>
       /\ discoveredFiles' = discoveredFiles
       /\ Len(processedContent') = Len(processedContent)
       /\ \A k \in 1..Len(processedContent) :
            /\ Unresolved(processedContent'[k]) = Unresolved(processedContent[k])
            /\ processedContent'[k].content # processedContent[k].content =>
                 /\ k = Len(resolveLog) + 1
                 /\ Len(resolveLog') = k
       /\ Len(resolveLog') # Len(resolveLog) =>
            /\ Len(resolveLog') = Len(resolveLog) + 1
            /\ Len(resolveLog') <= Len(processedContent)
            /\ resolveLog'[Len(resolveLog')].file = processedContent[Len(resolveLog')].filePath
            /\ processedContent'[Len(resolveLog')].content
                 = resolveLog'[Len(resolveLog')].linkResult.content
       /\ pc' = "done" =>
            /\ Len(resolveLog) = Len(processedContent)
            /\ result'.content = processedContent]_vars

\* a run that returned two documents, both resolved, one of them with a table
\* of contents and a body that resolution has rewritten
C27_Witness ==
  /\ pc = "done"
  /\ Len(result.content) = 2
  /\ Len(resolveLog) = 2
  /\ DOMAIN discoveredFiles = 1..2
  /\ \E k \in 1..2 :
       /\ result.content[k].toc # <<>>
       /\ result.content[k].content # Html5
       /\ result.content[k].content = resolveLog[k].linkResult.content

\* C28: the metadata returned by parseWithNormalization always has a
\* 'globs' entry that is a sequence and an 'alwaysApply' entry that is a
\* boolean, whatever the two fields were in the source block
C28_GlobsAndAlwaysApplyTyped ==
  MetaNormalizedDone =>
    /\ Has(metaNormalized.metadata, GlobsKey)
    /\ metaNormalized.metadata[GlobsKey].type = "array"
    /\ Has(metaNormalized.metadata, AlwaysApplyKey)
    /\ metaNormalized.metadata[AlwaysApplyKey].type = "boolean"

\* C29: a valid reference that names the relative path of a surviving
\* document, in any of the recognized forms, has that document's permalink
\* as its resolved target
C29_ValidReferencePointsAtPermalink ==
  pc = "done" =>
    \A r \in 1..Len(result.crossReferences), d \in 1..Len(result.content) :
      (/\ result.crossReferences[r].isValid
       /\ RefersTo(result.crossReferences[r].original, result.content[d].filePath)) =>
        result.crossReferences[r].resolved = result.content[d].permalink

\* a run whose result holds a valid plain reference to a document in a
\* subdirectory and a valid reference with the mdc: scheme, each resolved to
\* the permalink of the document it names
C29_Witness ==
  /\ pc = "done"
  /\ \E r \in 1..Len(result.crossReferences), d \in 1..Len(result.content) :
       /\ result.content[d].filePath = FileB
       /\ result.crossReferences[r].original = DotSlash \o FileB
       /\ result.crossReferences[r].isValid
       /\ result.crossReferences[r].resolved = result.content[d].permalink
  /\ \E r \in 1..Len(result.crossReferences), d \in 1..Len(result.content) :
       /\ result.crossReferences[r].original
            = MdcScheme \o LegacyRules \o result.content[d].filePath
       /\ result.crossReferences[r].isValid
       /\ result.crossReferences[r].resolved = result.content[d].permalink

PhaseRank(p) == CHOOSE k \in 1..Len(Phases) : Phases[k] = p

RECURSIVE FlattenReferences(_)
FlattenReferences(log) ==
  IF log = <<>> THEN <<>>
  ELSE Head(log).linkResult.crossReferences \o FlattenReferences(Tail(log))

RECURSIVE FlattenWarnings(_)
FlattenWarnings(log) ==
  IF log = <<>> THEN <<>>
  ELSE GenerateWarnings(Head(log).index, Head(log).linkResult.crossReferences, Head(log).file)
         \o FlattenWarnings(Tail(log))

IsSurvivor(entry) == entry.survived

\* the three shapes of a result
SourceMissingShape ==
  /\ result.content = <<>>
  /\ result.crossReferences = <<>>
  /\ Len(result.warnings) = 1
  /\ result.errors = <<>>

FatalShape ==
  /\ result.content = <<>>
  /\ result.crossReferences = <<>>
  /\ result.warnings = <<>>
  /\ Len(result.errors) = 1

NormalShape ==
  /\ [k \in 1..Len(result.content) |-> result.content[k].filePath]
       = [k \in 1..Len(SelectSeq(transformLog, IsSurvivor)) |->
            SelectSeq(transformLog, IsSurvivor)[k].file]
  /\ Len(resolveLog) = Len(result.content)
  /\ result.crossReferences = FlattenReferences(resolveLog)
  /\ result.warnings = FlattenWarnings(resolveLog)
  /\ result.errors = errors
  /\ Len(result.errors) = 0

ShapesOf ==
  (IF SourceMissingShape THEN {"source-missing"} ELSE {})
    \cup (IF FatalShape THEN {"fatal"} ELSE {})
    \cup (IF NormalShape THEN {"normal"} ELSE {})

\* C30: every run of loadContent goes through its phases in order, never
\* back to one it has left, and ends: it returns a result of exactly one of
\* the shapes source-missing, fatal and normal, and no exception leaves it
C30_TerminatesInOneShape ==
  /\ [][/\ pc \in Range(Phases)
        /\ pc' \in Range(Phases)
        /\ PhaseRank(pc') >= PhaseRank(pc)
        /\ pc' # pc => pc' \in {Phases[PhaseRank(pc) + 1], "done"}]_vars
  /\ [](pc = "done" => Cardinality(ShapesOf) = 1)
  /\ [](pc # "done" => result = NoResult)
  /\ <>(pc = "done")

\* a run that returned normally: one of two files survived, and its body
\* held a broken reference
C30_Witness ==
  /\ pc = "done"
  /\ ShapesOf = {"normal"}
  /\ Len(transformLog) = 2
  /\ Len(result.content) = 1
  /\ result.warnings # <<>>

(***************************************************************************)
(* Properties of the broken-reference messages (specification SpecWarn)    *)
(***************************************************************************)
Warned == linkPc = "warn-warned"
BrokenRefs == SelectSeq(linkOut.crossReferences, LAMBDA r : ~r.isValid)

\* the text of a message after a label, and before another one
AfterLabel(msg, label) == Substring(msg, IndexOf(msg, label) - 1 + Len(label))
BeforeLabel(text, label) ==
  IF IndexOf(text, label) = 0 THEN text ELSE SubSeq(text, 1, IndexOf(text, label) - 1)

\* the paths a comma-separated list of a message names
PathsOf(text) == IF text = <<>> THEN <<>> ELSE TrimAll(Split(text, ","))

\* the known document paths a message lists, and what follows them
ListedOf(msg) == PathsOf(BeforeLabel(AfterLabel(msg, AvailableLabel), AndOpen))
OverflowOf(msg) ==
  Substring(AfterLabel(msg, AvailableLabel),
            Len(BeforeLabel(AfterLabel(msg, AvailableLabel), AndOpen)))

\* the suggestions of a message
SuggestedOf(msg) ==
  IF IndexOf(msg, SuggestionsLabel) = 0 THEN <<>>
  ELSE PathsOf(BeforeLabel(AfterLabel(msg, SuggestionsLabel), AvailableLabel))

\* the known documents, each prefixed './', in index order and in ascending
\* order of code units
KnownInIndexOrder == [k \in 1..Len(discoveredFiles) |-> DotSlash \o discoveredFiles[k]]
KnownAscending ==
  [k \in 1..Len(discoveredFiles) |->
     CHOOSE p \in Range(KnownInIndexOrder) :
       Cardinality({q \in Range(KnownInIndexOrder) : StrLess(q, p)}) = k - 1]

FirstOf(seq, n) == SubSeq(seq, 1, IF Len(seq) < n THEN Len(seq) ELSE n)

ExpectedOverflow ==
  IF Len(discoveredFiles) > 5
  THEN <<" ", "(", "a", "n", "d", " ">> \o Digits(Len(discoveredFiles) - 5)
         \o <<" ", "m", "o", "r", "e", ")">>
  ELSE <<>>

\* C21 as stated: every broken-reference message lists the first 5 known
\* document paths (the first of the index), each prefixed './', all of them
\* when there are at most 5, and ends with '(and N-5 more)' exactly when the
\* number N of known documents exceeds 5
C21_FirstFiveKnownListed ==
  Warned =>
    /\ Len(linkWarnings) = Len(BrokenRefs)
    /\ \A k \in 1..Len(linkWarnings) :
         /\ Len(ListedOf(linkWarnings[k])) = Len(FirstOf(KnownInIndexOrder, 5))
         /\ Range(ListedOf(linkWarnings[k])) = Range(FirstOf(KnownInIndexOrder, 5))
         /\ OverflowOf(linkWarnings[k]) = ExpectedOverflow

\* C21 amended: every broken-reference message lists the first 5 of the
\* known document paths taken in ascending order of code units, whatever the
\* order of the index, each prefixed './', all of them when there are at
\* most 5, and ends with '(and N-5 more)' exactly when the number N of known
\* documents exceeds 5
C21_FirstFiveAscendingListed ==
  Warned =>
    /\ Len(linkWarnings) = Len(BrokenRefs)
    /\ \A k \in 1..Len(linkWarnings) :
         /\ ListedOf(linkWarnings[k]) = FirstOf(KnownAscending, 5)
         /\ OverflowOf(linkWarnings[k]) = ExpectedOverflow

\* eight known documents, enumerated in descending order, and a broken
\* reference: rule0 .. rule4 are listed, and 3 more are counted
C21_Witness ==
  /\ Warned
  /\ discoveredFiles = Descending(8)
  /\ Len(linkWarnings) >= 1
  /\ ListedOf(linkWarnings[1]) = [k \in 1..5 |-> DotSlash \o RulePool[k]]
  /\ OverflowOf(linkWarnings[1]) = <<" ", "(", "a", "n", "d", " ", "3", " ", "m", "o", "r", "e", ")">>

\* the known document qualifies as a suggestion for the reference
BaseOf(p) == ToLowerCase(Basename(p))
Qualifies(file, original) ==
  \/ BaseOf(file) = BaseOf(original)
  \/ Includes(BaseOf(file), BaseOf(original))
  \/ Includes(BaseOf(original), BaseOf(file))
QualifyingOf(known, original) == SelectSeq(known, LAMBDA file : Qualifies(file, original))

\* C22 as stated: the suggestions of a message are at most 3 known
\* documents that qualify, the first three qualifying documents of the
\* index order, and the 'Suggestions' part is present exactly when a
\* document qualifies
C22_FirstThreeOfIndex ==
  Warned =>
    \A k \in 1..Len(linkWarnings) :
      /\ Len(SuggestedOf(linkWarnings[k])) <= 3
      /\ \A j \in 1..Len(SuggestedOf(linkWarnings[k])) :
           Qualifies(SuggestedOf(linkWarnings[k])[j], BrokenRefs[k].original)
      /\ Len(SuggestedOf(linkWarnings[k]))
           = Len(FirstOf(QualifyingOf(KnownInIndexOrder, BrokenRefs[k].original), 3))
      /\ Range(SuggestedOf(linkWarnings[k]))
           = Range(FirstOf(QualifyingOf(KnownInIndexOrder, BrokenRefs[k].original), 3))
      /\ Includes(linkWarnings[k], SuggestionsLabel)
           <=> QualifyingOf(KnownInIndexOrder, BrokenRefs[k].original) # <<>>

\* C22 amended: the suggestions of a message are the first three qualifying
\* documents of the known paths taken in ascending order of code units,
\* whatever the order of the index, and the 'Suggestions' part is present
\* exactly when a document qualifies
C22_FirstThreeAscending ==
  Warned =>
    \A k \in 1..Len(linkWarnings) :
      /\ SuggestedOf(linkWarnings[k])
           = FirstOf(QualifyingOf(KnownAscending, BrokenRefs[k].original), 3)
      /\ Includes(linkWarnings[k], SuggestionsLabel)
           <=> QualifyingOf(KnownAscending, BrokenRefs[k].original) # <<>>

\* more than three documents qualify for './rule.mdc', the index is in
\* descending order, and the message suggests rule0, rule1 and rule2
C22_Witness ==
  /\ Warned
  /\ discoveredFiles = Descending(5)
  /\ Len(BrokenRefs) >= 1
  /\ BrokenRefs[1].original = RefRule
  /\ SuggestedOf(linkWarnings[1]) = [k \in 1..3 |-> DotSlash \o RulePool[k]]

(***************************************************************************)
(* Properties of the LinkResolver (specification SpecLink)                 *)
(***************************************************************************)
DefaultConfig == sourceDir = DefaultSourceDir
Resolved == linkPc \in {"resolved", "warned"}
CrossRefs == linkOut.crossReferences

\* C3: under the default configuration, every reference in one of the three
\* forms yields a CrossReference whose resolved target is crossReferenceBase
\* joined with p (separators normalized) and whose isValid is true exactly
\* when p.mdc is a key of the index; an invalid one still gets that target
C3_ResolvedTargetAndValidity ==
  (Resolved /\ DefaultConfig) =>
    LET rs == RefSegs(linkSegs)
    IN /\ Len(CrossRefs) = Len(rs)
       /\ \A k \in 1..Len(rs) :
            /\ CrossRefs[k].resolved = IntendedTarget(rs[k])
            /\ CrossRefs[k].isValid = IntendedValid(discoveredFiles, rs[k])

C3_Witness ==
  /\ Resolved
  /\ DefaultConfig
  /\ Len(CrossRefs) = 2
  /\ CrossRefs[1].isValid
  /\ StartsWith(CrossRefs[1].original, MdcScheme)
  /\ ~CrossRefs[2].isValid
  /\ Includes(CrossRefs[2].original, LegacyRules)
  /\ CrossRefs[2].resolved = CrossReferenceBase \o <<"/">> \o PathB

InvalidRef(r) == ~r.isValid

\* C4: generateWarnings returns exactly one message per cross-reference with
\* isValid = false, in input order, none for a valid one, and every message
\* contains the source file path and the original reference text
C4_OneWarningPerInvalidReference ==
  linkPc = "warned" =>
    LET bad == SelectSeq(CrossRefs, InvalidRef)
    IN /\ Len(linkWarnings) = Len(bad)
       /\ \A k \in 1..Len(bad) :
            /\ Includes(linkWarnings[k], LinkSource)
            /\ Includes(linkWarnings[k], bad[k].original)

C4_Witness ==
  /\ linkPc = "warned"
  /\ Len(CrossRefs) = 2
  /\ CrossRefs[1].isValid
  /\ ~CrossRefs[2].isValid
  /\ Len(linkWarnings) = 1

\* C5: under the default configuration resolveLinks returns one
\* CrossReference per reference occurrence of the body, in left-to-right
\* order, duplicates included, and a hyperlink yields exactly one record, for
\* its destination
C5_OneRecordPerOccurrence ==
  (Resolved /\ DefaultConfig) =>
    LET rs == RefSegs(linkSegs)
    IN [k \in 1..Len(CrossRefs) |-> CrossRefs[k].original]
         = [k \in 1..Len(rs) |-> RefText(sourceDir, rs[k])]

\* the same hyperlink twice: two equal records
C5_Witness ==
  /\ Resolved
  /\ DefaultConfig
  /\ Len(linkSegs) = 2
  /\ linkSegs[1].kind = "anchor"
  /\ linkSegs[2] = linkSegs[1]
  /\ Len(CrossRefs) = 2
  /\ CrossRefs[1] = CrossRefs[2]

IsAnchorSeg(seg) == seg.kind = "anchor"

\* C6 as stated: for every hyperlink match only the destination is replaced by
\* the resolved target and the label is left untouched, for any label and any
\* other references in the same body
C6_LabelUntouched ==
  (Resolved /\ DefaultConfig) =>
    \A k \in 1..Len(linkSegs) :
      IsAnchorSeg(linkSegs[k]) =>
        Includes(linkOut.content,
                 AnchorText(IntendedTarget(linkSegs[k]), linkSegs[k].label))

\* the text a segment is meant to become: plain text stays, a bare reference
\* becomes its target, a hyperlink becomes what resolveLinks rebuilds for it
RewrittenSeg(seg) ==
  CASE seg.kind = "text" -> seg.text
    [] seg.kind = "bare" -> IntendedTarget(seg)
    [] seg.kind = "anchor" ->
         AnchorText(IntendedTarget(seg), LinkText(SegText(sourceDir, seg)))

\* C7 as stated: every bare match is replaced, where it was matched, by its
\* own resolved target, and no text outside the matched spans is altered
C7_BareReplacedInPlace ==
  (Resolved /\ DefaultConfig) =>
    linkOut.content =
      JoinWith([k \in 1..Len(linkSegs) |-> RewrittenSeg(linkSegs[k])], <<" ">>)

\* C8 as stated: for every configured source directory S, a reference S/p.mdc,
\* optionally ./-prefixed, as hyperlink destination or bare text, is
\* recognized, resolved to crossReferenceBase/p and valid exactly when p.mdc
\* is in the index
C8_ConfiguredSourceRootRecognized ==
  Resolved =>
    \A k \in 1..Len(linkSegs) :
      (IsRefSeg(linkSegs[k]) /\ linkSegs[k].form \in {"root", "dotroot"}) =>
        \E r \in 1..Len(CrossRefs) :
          /\ CrossRefs[r].original = RefText(sourceDir, linkSegs[k])
          /\ CrossRefs[r].resolved = IntendedTarget(linkSegs[k])
          /\ CrossRefs[r].isValid = IntendedValid(discoveredFiles, linkSegs[k])

====
